---------------------------- MODULE Spec2Model ----------------------------
(***************************************************************************)
(* Model of the publisher record verification engine                       *)
(* (scripts/verify_publisher_record.mjs): the bounded worker pool          *)
(* (mapLimit), the per-URL state machine (verifySingleUrl), the shared     *)
(* seen-final-URL set, the browser context of a pass and the Wiley         *)
(* escalation pass of main.                                                *)
(*                                                                         *)
(* A URL string is modelled by the parts the code inspects:                *)
(*   scheme, host, path, doi  the pieces new URL() and the DOI regex see   *)
(*   q     "" | "utm" (a tracking query parameter) | "via" (any other)     *)
(*   hash  whether a #fragment is present                                  *)
(*   dec   whether decodeURIComponent accepts the string                   *)
(*   wf    whether new URL() accepts the string                            *)
(* JavaScript runs each continuation to completion, so an action is the    *)
(* code between two awaits.                                                *)
(***************************************************************************)
EXTENDS Integers, Sequences, FiniteSets, TLC

\* ------------------------------------------------------------------ bounds
MaxBatch == 2

MaxConcurrency == 2

MaxRetries == 2

\* How many operations of the outside world (a fetch, the browser launch, a
\* page open, navigation, extraction or close) may fail in one run.
MaxFaults == 1

\* The same for the runs of a single URL.
MaxUrlFaults == 2

\* --challenge-wait-ms is at most this many poll intervals.
MaxPolls == 2

\* The raw type hints a page gives are at most this many.
MaxHints == 2

\* The description meta tags of a page are at most this many.
MaxMeta == 2

\* The characters after the "/" of a DOI given as text are at most this many.
MaxSuffix == 3

\* The words of an author name are at most this many.
MaxWords == 3

\* --------------------------------------------------------------- constants
NotVerified == "[Not verified]"

\* The least challengeWaitMs of the headed retry.
HeadedRetryWaitMs == 60000

\* What chooseBestAbstractLocal takes off the score of a text ending in "...".
TRUNCATION_PENALTY == 120

NoUrl == [scheme |-> "", host |-> "", path |-> "", doi |-> "", q |-> "",
          hash |-> FALSE, dec |-> TRUE, wf |-> FALSE]

Url(s, h, p, d, q, hs) ==
  [scheme |-> s, host |-> h, path |-> p, doi |-> d, q |-> q,
   hash |-> hs, dec |-> TRUE, wf |-> TRUE]

TRACKING_HOST_PATTERNS ==
  {"el.aom.org", "el.wiley.com", "click.skem1.com", "lnk.springernature.com",
   "links.springernature.com", "link.mail.elsevier.com",
   "click.notification.elsevier.com"}

\* ---------------------------------------------------------- URL helpers
hostForUrl(u) == IF u.wf THEN u.host ELSE ""

isTrackingUrl(u) == hostForUrl(u) \in TRACKING_HOST_PATTERNS

policyForUrl(u) ==
  LET host == hostForUrl(u) IN
  CASE host = "pubsonline.informs.org" -> "informs"
    [] host = "journals.sagepub.com" -> "sage"
    [] host = "onlinelibrary.wiley.com" -> "wiley"
    [] host = "link.springer.com" -> "springer_link"
    [] host = "www.sciencedirect.com" -> "sciencedirect"
    [] host = "academic.oup.com" -> "oup"
    [] host = "journals.aom.org" -> "aom_atypon"
    [] host = "doi.org" -> "doi"
    [] OTHER -> "default"

\* decodeURIComponent throws URIError on a malformed percent escape.
normalizeDoiThrows(u) == u # NoUrl /\ ~u.dec

\* The canonical https://doi.org/<doi> URL of the first DOI-shaped token.
normalizeDoi(u) ==
  IF u = NoUrl \/ u.doi = "" THEN NoUrl
  ELSE Url("https", "doi.org", "/", u.doi, "", FALSE)

\* normalizeDoi on text.  A text is the sequence of its characters; the
\* prefixes "doi:", "https://doi.org/" and their variants, and the escape
\* "%2F", are each kept as one element.  "" is <<>>.
toLowerCase(c) ==
  CASE c = "A" -> "a" [] c = "X" -> "x" [] c = "DOI:" -> "doi:"
    [] c = "HTTPS://DX.DOI.ORG/" -> "https://dx.doi.org/" [] OTHER -> c

decodeURIComponent(text) ==
  [i \in 1..Len(text) |-> IF text[i] = "%2F" THEN "/" ELSE text[i]]

normalizeDoiText(doiOrUrl) ==
  LET digits == {"0", "1", "2", "3", "4", "7"}
      \* The class [-._;()/:A-Z0-9] under the flag i.
      doiChars == digits \cup {"a", "x", "A", "X", "-", ".", "_", ";", "(", ")", "/", ":"}
      \* The class [)\],.;\s].
      trailers == {")", "]", ",", ".", ";", " "}
      \* The last index of the run of characters of the set that starts at
      \* from, from - 1 when there is none.
      RunEnd(text, from, chars) ==
        CHOOSE e \in (from - 1)..Len(text) :
          /\ \A k \in from..e : text[k] \in chars
          /\ e = Len(text) \/ text[e + 1] \notin chars
      \* The first index of the run of characters of the set that ends the
      \* text, Len(text) + 1 when there is none.
      RunStart(text, chars) ==
        CHOOSE b \in 1..(Len(text) + 1) :
          /\ \A k \in b..Len(text) : text[k] \in chars
          /\ b = 1 \/ text[b - 1] \notin chars
      DropLeading(text, chars) == SubSeq(text, RunEnd(text, 1, chars) + 1, Len(text))
      DropTrailing(text, chars) == SubSeq(text, 1, RunStart(text, chars) - 1)
      \* The end of the match of /10\.\d{4,9}\/[-._;()/:A-Z0-9]+/i that starts
      \* at i, 0 when none starts there.
      MatchEnd(text, i) ==
        LET d == RunEnd(text, i + 3, digits)
            e == RunEnd(text, d + 2, doiChars)
        IN IF /\ i + 2 <= Len(text)
              /\ text[i] = "1" /\ text[i + 1] = "0" /\ text[i + 2] = "."
              /\ d - (i + 2) \in 4..9
              /\ d + 1 <= Len(text) /\ text[d + 1] = "/"
              /\ e >= d + 2
           THEN e ELSE 0
      trimmed == DropTrailing(DropLeading(doiOrUrl, {" "}), {" "})
      decoded == decodeURIComponent(trimmed)
      noUrl == IF decoded # <<>> /\ toLowerCase(Head(decoded)) \in
                    {"https://doi.org/", "http://doi.org/",
                     "https://dx.doi.org/", "http://dx.doi.org/"}
               THEN Tail(decoded) ELSE decoded
      raw == IF noUrl # <<>> /\ toLowerCase(Head(noUrl)) = "doi:"
             THEN DropLeading(Tail(noUrl), {" "}) ELSE noUrl
      starts == {i \in 1..Len(raw) : MatchEnd(raw, i) # 0}
      first == CHOOSE i \in starts : \A j \in starts : i <= j
      doi == DropTrailing(SubSeq(raw, first, MatchEnd(raw, first)), trailers)
  IN IF doiOrUrl = <<>> \/ starts = {} THEN <<>>
     ELSE <<"https://doi.org/">> \o [i \in 1..Len(doi) |-> toLowerCase(doi[i])]

maybeCanonicalArticleUrl(u) ==
  IF u.wf /\ u.path \in {"/advance-article/doi/", "/article/doi/"}
  THEN [u EXCEPT !.q = "", !.hash = FALSE]
  ELSE u

\* "" (no key) is modelled by NoUrl.
normalizeFinalUrlForRunDedupe(u) ==
  LET c == maybeCanonicalArticleUrl(u) IN
  IF ~c.wf THEN NoUrl
  ELSE [c EXCEPT !.hash = FALSE, !.q = IF c.q = "utm" THEN "" ELSE c.q]

\* uniqueStrings: drops empty strings and later repetitions, keeps order.
RECURSIVE uniqueStrings(_)
uniqueStrings(values) ==
  IF values = <<>> THEN <<>>
  ELSE LET n == Len(values)
           init == uniqueStrings(SubSeq(values, 1, n - 1))
           last == values[n]
       IN IF last = NoUrl \/ \E k \in 1..Len(init) : init[k] = last
          THEN init ELSE Append(init, last)

\* ------------------------------------------------------- link classifiers
\* A null reason is modelled by "".
\* Paths of the universe matched by /unsubscribe/ or /removealert/.
UnsubscribePaths == {"/unsubscribe/", "/action/removeAlert"}

\* Paths matched by the manage-alerts / preferences patterns.
ManagementPaths == {"/manage-alerts/", "/alert-preferences/"}

\* verifySingleUrl never passes link text, so only the href patterns apply;
\* they are tested on the raw string, whether or not it parses as a URL.
classifyUnsafeAlertManagementLink(u) ==
  IF u = NoUrl THEN ""
  ELSE IF u.path \in UnsubscribePaths THEN "alert_unsubscribe_link"
  ELSE IF u.path \in ManagementPaths THEN "alert_management_preferences_link"
  ELSE ""

classifyUnsupportedUrlScheme(u) ==
  IF u = NoUrl THEN ""
  ELSE IF ~u.wf THEN ""
  ELSE IF u.scheme \in {"http", "https", "file"} THEN ""
  ELSE "unsupported_url_scheme"

classifyUnsafePreNavigationLink(u) ==
  IF classifyUnsafeAlertManagementLink(u) # ""
  THEN classifyUnsafeAlertManagementLink(u)
  ELSE classifyUnsupportedUrlScheme(u)

ActionPaths == {"/action/cookieAbsent", "/action/removeAlert", "/action/showLogin"}

AomHosts == {"aom.org", "el.aom.org", "myaccount.aom.org", "journals.aom.org"}

classifyKnownNonArticleLink(u) ==
  IF ~u.wf THEN ""
  ELSE LET host == u.host
           p == u.path
           aomJournals ==
             IF host # "journals.aom.org" \/ p = "/doi/" THEN ""
             ELSE IF p = "/action/removeAlert" THEN "aom_alert_management_link"
             ELSE IF p = "/action/showLogin" THEN "aom_login_link"
             ELSE IF p \in ActionPaths THEN "aom_non_article_action_link"
             ELSE ""
           wiley ==
             IF p = "/doi/" THEN ""
             ELSE IF p = "/action/removeAlert" THEN "wiley_alert_management_link"
             ELSE IF p \in ActionPaths THEN "wiley_non_article_action_link"
             ELSE IF p = "/toc/" THEN "wiley_toc_or_issue_link"
             ELSE IF p = "/journal/" THEN "wiley_journal_home_link"
             ELSE IF p = "/" THEN "wiley_marketing_or_home_link"
             ELSE ""
       IN IF host = "journals.aom.org" /\ p = "/doi/" THEN ""
          ELSE IF aomJournals # "" THEN aomJournals
          ELSE IF host = "myaccount.aom.org" THEN "aom_account_link"
          ELSE IF host \in AomHosts /\ host # "journals.aom.org"
               THEN "aom_marketing_or_policy_link"
          ELSE IF host = "onlinelibrary.wiley.com" THEN wiley
          ELSE IF host = "atypon.com" THEN "technology_partner_link"
          ELSE ""

\* -------------------------------------------------------- seen-final-URLs
shouldSkipDuplicateFinalUrl(seenFinalUrls, rawUrl, inputUrl) ==
  LET key == normalizeFinalUrlForRunDedupe(rawUrl) IN
  IF key = NoUrl THEN FALSE
  ELSE IF isTrackingUrl(rawUrl) THEN FALSE
  ELSE IF normalizeFinalUrlForRunDedupe(inputUrl) = key THEN FALSE
  ELSE key \in seenFinalUrls

rememberFinalUrl(seenFinalUrls, rawUrl) ==
  LET key == normalizeFinalUrlForRunDedupe(rawUrl) IN
  IF key = NoUrl THEN seenFinalUrls ELSE seenFinalUrls \cup {key}

\* ----------------------------------------------------------- ScienceDirect
PiiPaths == {"/science/article/pii/S1", "/science/article/pii/S2"}

isScienceDirectLikeUrl(u) ==
  \/ hostForUrl(u) = "www.sciencedirect.com"
  \/ (u # NoUrl /\ u.doi \in {"10.1016/b"})

canonicalScienceDirectArticleUrl(u) ==
  IF u.wf /\ u.path \in PiiPaths
  THEN Url("https", "www.sciencedirect.com", u.path, "", "", FALSE)
  ELSE u

\* ------------------------------------------------------ record building
\* Text values are tokens; "" is the empty string.  A doiUrl is a URL value and
\* NoUrl stands for its "[Not verified]"; a citation is kept in parts and the
\* form "nv" stands for the string "[Not verified]".
isNotVerifiedValue(value) == value = "" \/ value = NotVerified

ensureField(value) == IF value = "" THEN NotVerified ELSE value

extractDoiFromText(u) ==
  IF u = NoUrl \/ u.doi = "" THEN NoUrl
  ELSE Url("https", "doi.org", "/", u.doi, "", FALSE)

parseYear(value) == IF value = "2024-05-01" THEN "2024" ELSE ""

AOM_DOI_JOURNAL_BY_PREFIX(doi) ==
  IF doi = "10.5465/amj.1" THEN "Academy of Management Journal" ELSE ""

aomJournalFromDoi(doiUrl) == AOM_DOI_JOURNAL_BY_PREFIX(normalizeDoi(doiUrl).doi)

\* The text after the first "|" of the page title, "" when there is none.
PageTitleSuffix(pageTitle) == IF pageTitle = "T | J" THEN "J" ELSE ""

inferJournalFallback(journal, pageTitle, finalUrl, doiUrl) ==
  IF journal # "" THEN journal
  ELSE IF aomJournalFromDoi(doiUrl) # "" THEN aomJournalFromDoi(doiUrl)
  ELSE IF PageTitleSuffix(pageTitle) # "" THEN PageTitleSuffix(pageTitle)
  ELSE IF hostForUrl(finalUrl) = "journals.aom.org"
       THEN "Academy of Management [Not verified]"
  ELSE ""

formatApaAuthor(name) ==
  CASE name = "Jane Doe" -> "Doe, J."
    [] name = "Dr. Jane Doe" -> "Doe, J."
    [] name = "John Roe" -> "Roe, J."
    [] OTHER -> name

\* The formatted names, later repetitions dropped; the joined string is kept
\* as the list of its names and "" is the empty list.
RECURSIVE formatApaAuthors(_)
formatApaAuthors(authors) ==
  IF authors = <<>> THEN <<>>
  ELSE LET n == Len(authors)
           init == formatApaAuthors(SubSeq(authors, 1, n - 1))
           formatted == formatApaAuthor(authors[n])
       IN IF formatted = "" \/ \E k \in 1..Len(init) : init[k] = formatted
          THEN init ELSE Append(init, formatted)

\* Author names word by word.  A name is the sequence of its words, a word
\* keeps the comma that follows it ("Doe,"), and a formatted name is the
\* sequence of its words, commas and initials.  The universe holds no degree,
\* generational suffix or family particle, so the steps that look for them
\* leave every name as it is.
stripAcademicHonorifics(name) ==
  IF Len(name) >= 2 /\ name[1] \in {"Dr.", "Professor"} THEN Tail(name) ELSE name

formatApaAuthorFromStructured(authorObj) ==
  LET raw == stripAcademicHonorifics(authorObj.raw)
      buildAuthorInitials(givenTokens) ==
        [i \in 1..Len(givenTokens) |->
           CASE givenTokens[i] = "Professor" -> "P."
             [] givenTokens[i] = "Jane" -> "J."
             [] givenTokens[i] = "Group" -> "G."
             [] OTHER -> "D."]
      initials == buildAuthorInitials(authorObj.given)
  IN IF authorObj.parseMode \in {"corporate", "mononym"}
     THEN (IF raw # <<>> THEN raw ELSE authorObj.family)
     ELSE IF authorObj.family = <<>> THEN (IF raw # <<>> THEN raw ELSE initials)
     ELSE IF initials # <<>> THEN authorObj.family \o <<",">> \o initials
     ELSE authorObj.family

\* The author of a name that is not empty.
parseAuthorName(rawName) ==
  LET raw == stripAcademicHonorifics(rawName)
      normalizeAuthorToken(token) == IF token = "Doe," THEN "Doe" ELSE token
      tokens(words) == [i \in 1..Len(words) |-> normalizeAuthorToken(words[i])]
      commas == {i \in 1..Len(raw) : raw[i] = "Doe,"}
      commaIdx == CHOOSE i \in commas : \A j \in commas : i <= j
      parts == tokens(raw)
      Author(family, given, parseMode) ==
        [raw |-> raw, family |-> family, given |-> given, parseMode |-> parseMode]
  IN IF \E i \in 1..Len(raw) : raw[i] = "Group"
     THEN Author(<<>>, <<>>, "corporate")
     ELSE IF commas # {}
     THEN Author(tokens(SubSeq(raw, 1, commaIdx)),
                 tokens(SubSeq(raw, commaIdx + 1, Len(raw))), "comma_surname_first")
     ELSE IF Len(parts) = 1 THEN Author(<<>>, <<>>, "mononym")
     ELSE Author(<<parts[Len(parts)]>>, SubSeq(parts, 1, Len(parts) - 1),
                 "space_given_first")

\* formatApaAuthor of the later script: the name parsed, normalised as a
\* structured candidate and formatted.
formatApaAuthorParsed(name) ==
  LET author == parseAuthorName(name)
      normalized == [author EXCEPT !.raw = stripAcademicHonorifics(@)]
  IN IF name = <<>> THEN <<>> ELSE formatApaAuthorFromStructured(normalized)

\* ------------------------------------------------- author source selection
\* An author candidate is kept by the kind of source it was read from, so a
\* list of candidates is a list of kinds; the raw name of a structured
\* candidate is its kind as well.
authorSourcePriority(policyName) ==
  CASE policyName \in {"springer_link", "wiley"} -> <<"meta", "dom", "jsonld_name">>
    [] policyName = "aom_atypon" -> <<"meta", "dom">>
    [] policyName = "sciencedirect" ->
         <<"preloaded_structured", "meta", "jsonld_person", "dom">>
    [] OTHER -> <<"meta", "dom", "jsonld_person", "jsonld_name",
                  "preloaded_structured", "preloaded_text">>

selectAuthorSourceForRecord(extracted, policyName) ==
  LET priority == authorSourcePriority(policyName)
      structuredCandidates == extracted.authorsStructuredCandidates
      byKind(kind) ==
        CASE kind = "meta" -> extracted.authorsFromMeta
          [] kind = "dom" -> extracted.authorsFromDom
          [] kind = "jsonld_name" -> extracted.authorsFromJsonLdNames
          [] kind = "preloaded_text" -> extracted.authorsFromPreloadedText
          [] OTHER -> <<>>
      Structured(kind) == kind \in {"jsonld_person", "preloaded_structured"}
      returning == {i \in 1..Len(priority) :
                      IF Structured(priority[i]) THEN structuredCandidates # <<>>
                      ELSE byKind(priority[i]) # <<>>}
      kind == priority[CHOOSE i \in returning : \A j \in returning : i <= j]
  IN IF returning = {}
     THEN [sourceKind |-> IF extracted.authorsSourceKind # ""
                          THEN extracted.authorsSourceKind
                          ELSE IF extracted.authors # <<>> THEN "fallback" ELSE "",
           rawAuthors |-> extracted.authors,
           structuredAuthors |-> structuredCandidates]
     ELSE IF Structured(kind)
     THEN [sourceKind |-> IF extracted.authorsStructuredSourceKind # ""
                          THEN extracted.authorsStructuredSourceKind ELSE kind,
           rawAuthors |-> structuredCandidates,
           structuredAuthors |-> structuredCandidates]
     ELSE [sourceKind |-> kind, rawAuthors |-> byKind(kind), structuredAuthors |-> <<>>]

NoCitation ==
  [form |-> "nv", authors |-> <<>>, year |-> "", title |-> "", journal |-> "",
   tail |-> <<>>, doiUrl |-> NoUrl]

buildApaCitation(record) ==
  LET authors == formatApaAuthors(record.authors)
      hasVolume == ~isNotVerifiedValue(record.volume)
      hasIssue == ~isNotVerifiedValue(record.issue)
      hasPageRange == ~isNotVerifiedValue(record.pageRange)
      hasPublishedOnline == ~isNotVerifiedValue(record.publishedOnline)
      volumeIssue == IF hasVolume
                     THEN (IF hasIssue THEN <<record.volume, "(", record.issue, ")">>
                           ELSE <<record.volume>>)
                     ELSE <<>>
      publicationTail == volumeIssue \o (IF hasPageRange THEN <<record.pageRange>> ELSE <<>>)
      parts(form, tail) ==
        [form |-> form, authors |-> authors, year |-> record.year,
         title |-> record.title, journal |-> record.journal, tail |-> tail,
         doiUrl |-> record.doiUrl]
  IN IF \/ authors = <<>> \/ isNotVerifiedValue(record.year)
        \/ isNotVerifiedValue(record.title) \/ isNotVerifiedValue(record.journal)
        \/ record.doiUrl = NoUrl
     THEN NoCitation
     ELSE IF ~hasVolume /\ ~hasIssue /\ ~hasPageRange /\ hasPublishedOnline
     THEN parts("advance", <<>>)
     ELSE IF publicationTail = <<>> THEN NoCitation
     ELSE parts("tail", publicationTail)

Required == <<"title", "doiUrl", "journal", "year", "abstract", "citation">>

FieldNotVerified(record, key) ==
  CASE key = "doiUrl" -> record.doiUrl = NoUrl
    [] key = "citation" -> record.citation.form = "nv"
    [] OTHER -> isNotVerifiedValue(record[key])

\* requiredMissing without the abstract among the required fields.
requiredMissingButAbstract(record) ==
  SelectSeq(Required, LAMBDA key : key # "abstract" /\ FieldNotVerified(record, key))

requiredMissing(record) ==
  SelectSeq(Required, LAMBDA key : FieldNotVerified(record, key))

\* ------------------------------------------------------ abstract selection
\* A candidate text is kept by what the selection looks at: where it comes
\* from, its length after the cleaning, whether it ends in "..." and whether
\* it matches /(all rights reserved|cookie|javascript|privacy policy)/i.  ""
\* is the candidate of length 0; nothing chosen is NoAbstract.
NoAbstract == [origin |-> "", length |-> 0, ellipsis |-> FALSE, boilerplate |-> FALSE]

AbstractScore(text) ==
  IF text.ellipsis THEN text.length - TRUNCATION_PENALTY ELSE text.length

\* The first text of the stable sort by score, then by length, descending.
chooseBestAbstractLocal(candidates) ==
  LET cleaned == SelectSeq(candidates, LAMBDA c : c.length > 0)
      normalized == [i \in {k \in 1..Len(cleaned) :
                              \A j \in 1..(k - 1) : cleaned[j] # cleaned[k]} |-> cleaned[i]]
      kept == DOMAIN normalized
      filtered == {i \in kept : ~normalized[i].boilerplate}
      pool == IF filtered # {} THEN filtered ELSE kept
      Before(i, j) ==
        \/ AbstractScore(normalized[i]) > AbstractScore(normalized[j])
        \/ /\ AbstractScore(normalized[i]) = AbstractScore(normalized[j])
           /\ normalized[i].length > normalized[j].length
        \/ /\ AbstractScore(normalized[i]) = AbstractScore(normalized[j])
           /\ normalized[i].length = normalized[j].length
           /\ i <= j
  IN IF kept = {} THEN NoAbstract
     ELSE normalized[CHOOSE i \in pool : \A j \in pool : Before(i, j)]

\* ------------------------------------------------ article-type classifier
INCLUDE_ARTICLE_TYPES == {"research-article", "research-paper", "editorial"}

EXCLUDE_ARTICLE_TYPES ==
  {"book-review", "media-review", "discussion", "commentary", "corrigendum",
   "erratum", "retraction", "interview", "call-for-papers", "announcement",
   "news"}

POLICY_ARTICLE_TYPE_OVERRIDES(policyName, value) ==
  IF policyName = "springer_link" /\ value \in {"Original Paper", "Original Article"}
  THEN "research-article" ELSE ""

\* The rule table on the hint texts of the universe.
normalizeArticleTypeValue(value, policyName, allowPolicyOverrides) ==
  IF value = "" THEN ""
  ELSE IF allowPolicyOverrides /\ POLICY_ARTICLE_TYPE_OVERRIDES(policyName, value) # ""
       THEN POLICY_ARTICLE_TYPE_OVERRIDES(policyName, value)
  ELSE CASE value = "Book Review" -> "book-review"
         [] value = "A Perspective on X" -> "commentary"
         [] value = "Research Article" -> "research-article"
         [] value = "Original Article" -> "research-article"
         [] OTHER -> ""

NoClassification ==
  [articleType |-> NotVerified, ingestDecision |-> "not_verified",
   ingestReason |-> "article_type_unclear", source |-> "none"]

classifyOne(hint, policyName, allowPolicyOverrides) ==
  LET normalized == normalizeArticleTypeValue(hint.value, policyName, allowPolicyOverrides) IN
  IF normalized \in EXCLUDE_ARTICLE_TYPES
  THEN [articleType |-> normalized, ingestDecision |-> "exclude",
        ingestReason |-> "excluded_by_type", source |-> hint.sourceLabel]
  ELSE IF normalized \in INCLUDE_ARTICLE_TYPES
  THEN [articleType |-> normalized, ingestDecision |-> "include",
        ingestReason |-> "included_by_type", source |-> hint.sourceLabel]
  ELSE NoClassification

\* The hints of the universe differ in label or text, so that none is dropped
\* as already seen.
\* The first hint of the list that classifies, NoClassification when none does.
RECURSIVE FirstClassified(_, _, _)
FirstClassified(hints, policyName, allowPolicyOverrides) ==
  IF hints = <<>> THEN NoClassification
  ELSE IF classifyOne(Head(hints), policyName, allowPolicyOverrides) # NoClassification
  THEN classifyOne(Head(hints), policyName, allowPolicyOverrides)
  ELSE FirstClassified(Tail(hints), policyName, allowPolicyOverrides)

\* The classifier that asks the title and page-title hints first.
classifySemanticFirst(policyName, rawTypeHints, semanticHints) ==
  LET rawHints == SelectSeq(rawTypeHints, LAMBDA h : h.value # "")
      semanticHintList == SelectSeq(semanticHints, LAMBDA h : h.value # "")
      byRaw == FirstClassified(rawHints, policyName, TRUE)
      bySemantic == FirstClassified(semanticHintList, policyName, FALSE)
  IN IF bySemantic # NoClassification THEN bySemantic
     ELSE IF byRaw # NoClassification THEN byRaw
     ELSE [NoClassification EXCEPT !.ingestReason =
             IF rawHints # <<>> THEN "article_type_unmapped_raw_hint"
             ELSE "article_type_unclear"]

classifyArticleType(policyName, rawTypeHints, semanticHints) ==
  LET rawHints == SelectSeq(rawTypeHints, LAMBDA h : h.value # "")
      semanticHintList == SelectSeq(semanticHints, LAMBDA h : h.value # "")
      byRaw == FirstClassified(rawHints, policyName, TRUE)
      bySemantic == FirstClassified(semanticHintList, policyName, FALSE)
  IN IF byRaw # NoClassification THEN byRaw
     ELSE IF bySemantic # NoClassification THEN bySemantic
     ELSE [NoClassification EXCEPT !.ingestReason =
             IF rawHints # <<>> THEN "article_type_unmapped_raw_hint"
             ELSE "article_type_unclear"]

\* ------------------------------------------------------------- the records
buildRecordFromExtracted(extracted, sourceUrl, policyName) ==
  LET doiUrl ==
        IF normalizeDoi(extracted.doiMeta) # NoUrl THEN normalizeDoi(extracted.doiMeta)
        ELSE IF normalizeDoi(extractDoiFromText(extracted.finalUrl)) # NoUrl
        THEN normalizeDoi(extractDoiFromText(extracted.finalUrl))
        ELSE normalizeDoi(extractDoiFromText(sourceUrl))
      inferredJournal ==
        inferJournalFallback(extracted.journal, extracted.pageTitle,
                             extracted.finalUrl, doiUrl)
      classification ==
        classifyArticleType(policyName,
          << [value |-> extracted.articleTypeMetaHint, sourceLabel |-> "publisher_raw_type"],
             [value |-> extracted.articleTypeDomHint, sourceLabel |-> "publisher_dom_type"],
             [value |-> extracted.articleTypeJsonLdHint, sourceLabel |-> "publisher_jsonld_type"] >>,
          << [value |-> extracted.title, sourceLabel |-> "title_heuristic"],
             [value |-> extracted.pageTitle, sourceLabel |-> "page_title_heuristic"] >>)
      normalized ==
        [sourceUrl |-> sourceUrl,
         finalUrl |-> IF extracted.finalUrl # NoUrl THEN extracted.finalUrl ELSE sourceUrl,
         title |-> ensureField(extracted.title),
         authors |-> extracted.authors,
         year |-> ensureField(parseYear(extracted.publicationDate)),
         journal |-> ensureField(IF inferredJournal # "" THEN inferredJournal
                                 ELSE extracted.journal),
         volume |-> ensureField(extracted.volume),
         issue |-> ensureField(extracted.issue),
         pageRange |-> ensureField(extracted.pageRange),
         publishedOnline |-> ensureField(extracted.publicationDate),
         doiUrl |-> doiUrl,
         abstract |-> ensureField(extracted.abstractText),
         citation |-> NoCitation,
         missingFields |-> <<>>,
         status |-> "",
         articleType |-> classification.articleType,
         ingestDecision |-> classification.ingestDecision,
         ingestReason |-> classification.ingestReason,
         articleTypeClassificationSource |-> classification.source,
         policy |-> policyName,
         resolvedUrl |-> NoUrl,
         retrieval |-> "",
         errors |-> <<>>]
      cited == [normalized EXCEPT !.citation = buildApaCitation(normalized)]
      missing == requiredMissing(cited)
  IN [cited EXCEPT !.missingFields = missing,
                   !.status = IF missing # <<>> THEN "not_verified" ELSE "verified"]

UnverifiedRecord(inputUrl, finalUrl, doiUrl, policyName) ==
  [sourceUrl |-> inputUrl, finalUrl |-> finalUrl,
   title |-> NotVerified, authors |-> <<>>, year |-> NotVerified,
   journal |-> NotVerified, volume |-> NotVerified, issue |-> NotVerified,
   pageRange |-> NotVerified, publishedOnline |-> NotVerified,
   doiUrl |-> doiUrl, abstract |-> NotVerified, citation |-> NoCitation,
   missingFields |-> <<"title", "journal", "year", "abstract", "citation">>,
   status |-> "", articleType |-> NotVerified, ingestDecision |-> "",
   ingestReason |-> "", articleTypeClassificationSource |-> "none",
   policy |-> policyName, resolvedUrl |-> NoUrl, retrieval |-> "",
   errors |-> <<>>]

buildVerificationFailureRecord(inputUrl, policyName, errors) ==
  [UnverifiedRecord(inputUrl, inputUrl, normalizeDoi(inputUrl), policyName)
     EXCEPT !.status = "not_verified", !.ingestDecision = "not_verified",
            !.ingestReason = "verification_failed", !.errors = errors]

buildExcludedLinkRecord(inputUrl, finalUrl, policyName, reason) ==
  LET maybeDoi == IF normalizeDoi(finalUrl) # NoUrl THEN normalizeDoi(finalUrl)
                  ELSE normalizeDoi(inputUrl)
      final == IF finalUrl # NoUrl THEN finalUrl ELSE inputUrl
  IN [UnverifiedRecord(inputUrl, final, maybeDoi, policyName)
        EXCEPT !.status = "excluded", !.articleType = "announcement",
               !.ingestDecision = "exclude",
               !.ingestReason = IF reason # "" THEN reason ELSE "non_article_link",
               !.resolvedUrl = final]

\* ------------------------------------------------ the URLs of the universe
WileyArticle == Url("https", "onlinelibrary.wiley.com", "/doi/", "10.1002/a", "", FALSE)

WileyArticleHash == [WileyArticle EXCEPT !.hash = TRUE]

WileyArticleUtm == [WileyArticle EXCEPT !.q = "utm"]

WileyToc == Url("https", "onlinelibrary.wiley.com", "/toc/", "", "", FALSE)

WileyCookieAbsent == Url("https", "onlinelibrary.wiley.com", "/action/cookieAbsent", "", "", FALSE)

WileyTracker1 == Url("https", "el.wiley.com", "/c/1", "", "", FALSE)

WileyTracker2 == Url("https", "el.wiley.com", "/c/2", "", "", FALSE)

WileyTracker3 == Url("https", "el.wiley.com", "/c/3", "", "", FALSE)

\* "https://el.aom.org/c/4", which redirects to AomArticle.
AomTracker == Url("https", "el.aom.org", "/c/4", "", "", FALSE)

AomArticle == Url("https", "journals.aom.org", "/doi/", "10.5465/amj.1", "", FALSE)

\* An article of the proceedings, whose DOI prefix "ambpp" is not in the table.
AomProceedings == [AomArticle EXCEPT !.doi = "10.5465/ambpp.1"]

SageArticle == Url("https", "journals.sagepub.com", "/doi/", "10.1177/c", "", FALSE)

SageArticleNoAbstract == [SageArticle EXCEPT !.doi = "10.1177/d"]

SdArticle == Url("https", "www.sciencedirect.com", "/science/article/pii/S1", "", "via", FALSE)

SdArticleNoAbstract == [SdArticle EXCEPT !.path = "/science/article/pii/S2"]

\* "https://doi.org/10.1016/b", which redirects to SdArticle.
SdDoi == Url("https", "doi.org", "/", "10.1016/b", "", FALSE)

UnsubscribeLink == Url("https", "el.wiley.com", "/unsubscribe/", "", "", FALSE)

ManageAlertsLink == Url("https", "onlinelibrary.wiley.com", "/manage-alerts/", "", "", FALSE)

MailtoLink == Url("mailto", "", "editor", "", "", FALSE)

FixtureFile == Url("file", "", "/fixture.html", "", "", FALSE)

\* "https://journals.sagepub.com/doi/10.1177/c?x=%": a malformed escape.
UndecodableArticle == [SageArticle EXCEPT !.dec = FALSE]

UndecodableUnsubscribe == [UnsubscribeLink EXCEPT !.dec = FALSE]

\* "ftp://exa mple.org/": new URL() rejects the host.
MalformedFtp == [Url("ftp", "exa mple.org", "/", "", "", FALSE) EXCEPT !.wf = FALSE]

\* ----------------------------------------------------- the network outside
\* Where a tracker link redirects to.
TrackerDestination(u) ==
  CASE u.host = "el.aom.org" -> AomArticle
    [] u.path = "/c/1" -> WileyArticleUtm
    [] u.path = "/c/2" -> WileyArticle
    [] u.path = "/c/3" -> WileyCookieAbsent
    [] OTHER -> WileyToc

\* response.url of the redirect-following fetch of a tracker link.
TrackerResponses(u) == {TrackerDestination(u)}

\* page.url() after a successful navigation.
BrowserLandings(targetUrl) ==
  IF isTrackingUrl(targetUrl) THEN {TrackerDestination(targetUrl)}
  ELSE IF targetUrl.host = "doi.org"
  THEN {CASE targetUrl.doi = "10.1002/a" -> WileyArticle
          [] targetUrl.doi = "10.1177/c" -> SageArticle
          [] targetUrl.doi = "10.1177/d" -> SageArticleNoAbstract
          [] OTHER -> SdArticle}
  ELSE {targetUrl}

\* %{url_effective} of the redirect-following curl fetch of url.
EffectiveUrl(url) == CHOOSE landing \in BrowserLandings(url) : TRUE

\* The article pages that show no abstract.
Abstractless(u) ==
  u # NoUrl /\ (u.doi = "10.1177/d" \/ u.path = "/science/article/pii/S2")

\* The DOI the article page at u states in its metadata.
PageDoi(u) ==
  IF u = NoUrl THEN ""
  ELSE IF u.doi # "" THEN u.doi
  ELSE IF u.path \in PiiPaths THEN "10.1016/b"
  ELSE ""

\* ------------------------------------------------------------- the state
VARIABLES
  args,           \* the parsed command line (parseArgs)
  urls,           \* main: the accepted, string-deduplicated input URLs
  phase,          \* main: "initial", "fallback", "done", or "aborted"
  passUrls,       \* runVerificationPass: the URLs of the pass in progress
  passArgs,       \* runVerificationPass: its args (fallbackArgs in the 2nd pass)
  cursor,         \* mapLimit: the shared cursor (1-based)
  spawned,        \* mapLimit: how many runners Array.from has started
  results,        \* mapLimit: results[i] is <<>> or <<{ok, record}>>
  workers,        \* the runners: position and locals of verifySingleUrl
  browserState,   \* runVerificationPass: browserInitPromise / browserState
  seenFinalUrls,  \* main: the run-scoped set of normalized final URLs
  initialResults, \* main: the results of the initial pass
  fallbackRuns,   \* main: the escalation passes performed
  output,         \* main: <<>> or <<the JSON written to stdout>>
  site,           \* what the article pages of the publishers show
  faultsLeft,     \* the failures the outside world may still produce
  taken,          \* history: how often each index of the pass was taken
  launches        \* history: how often initBrowser ran in the pass

vars == <<args, urls, phase, passUrls, passArgs, cursor, spawned, results,
          workers, browserState, seenFinalUrls, initialResults, fallbackRuns,
          output, site, faultsLeft, taken, launches>>

\* What page.evaluate (or the lightweight parse) yields for the page at finalUrl.
Extracted(finalUrl) ==
  [title |-> site.title, authors |-> site.authors, journal |-> site.journal,
   publicationDate |-> site.publicationDate, volume |-> site.volume,
   issue |-> site.issue, pageRange |-> site.pageRange,
   doiMeta |-> IF site.showsDoi /\ PageDoi(finalUrl) # ""
               THEN Url("https", "doi.org", "/", PageDoi(finalUrl), "", FALSE)
               ELSE NoUrl,
   abstractText |-> IF Abstractless(finalUrl) THEN "" ELSE site.abstractText,
   articleTypeMetaHint |-> site.articleTypeMetaHint,
   articleTypeDomHint |-> "", articleTypeJsonLdHint |-> "",
   finalUrl |-> finalUrl, pageTitle |-> site.pageTitle]

PageContents(finalUrl) == {Extracted(finalUrl)}

Min(a, b) == IF a < b THEN a ELSE b

Or(a, b) == IF a # NoUrl THEN a ELSE b

Idle ==
  [pc |-> "idle", index |-> 0, attempt |-> 0, t |-> 0, targetUrl |-> NoUrl,
   trackingResolutionError |-> "", pageUrl |-> NoUrl, lastPolicy |-> "",
   curlResult |-> <<>>, probe |-> "", elapsed |-> 0, polls |-> 0,
   errors |-> <<>>, net |-> FALSE, sleeps |-> 0, failLog |-> <<>>]

Off == [Idle EXCEPT !.pc = "off"]

Done == [Idle EXCEPT !.pc = "done"]

\* mapLimit starting one runner for every item, whatever the limit.
RunnerPerItem(limit, items) == Len(items)

\* mapLimit: Array.from({length: Math.min(limit, items.length)}, ...)
Runners(limit, items) == Min(limit, Len(items))

\* ------------------------------------------- verifySingleUrl, step by step
\* A continuation of verifySingleUrl ends in one of three ways: it awaits
\* (ws is the worker's next position), it returns {ok, record}, or it throws.
\* ctx tells that getContext() was called and cost how many operations of the
\* outside world failed in the continuation.  The audit of a returned item is
\* history: whether the call touched the network, its backoff sleeps, the
\* retrievals that failed, and the attempt it returned in.
Continue(ws, seen) ==
  [ws |-> ws, ret |-> <<>>, seen |-> seen, thrown |-> FALSE, ctx |-> FALSE, cost |-> 0]

Return(ws, seen, ok, record) ==
  [ws |-> ws,
   ret |-> << [ok |-> ok, record |-> record,
               audit |-> [net |-> ws.net, sleeps |-> ws.sleeps,
                          failLog |-> ws.failLog, attempt |-> ws.attempt]] >>,
   seen |-> seen, thrown |-> FALSE, ctx |-> FALSE, cost |-> 0]

Throw(ws, seen) ==
  [ws |-> ws, ret |-> <<>>, seen |-> seen, thrown |-> TRUE, ctx |-> FALSE, cost |-> 0]

Failing(st, n) == [st EXCEPT !.cost = @ + n]

GetContext(ws, seen) ==
  [ws |-> [ws EXCEPT !.pc = "context"], ret |-> <<>>, seen |-> seen,
   thrown |-> FALSE, ctx |-> TRUE, cost |-> 0]

Targets(inputUrl) == uniqueStrings(<<inputUrl, normalizeDoi(inputUrl)>>)

\* curlResult is <<>> or <<the record of the lightweight fetch>>; probe is
\* what the last detectChallenge of waitForChallengeClear saw, elapsed is
\* Date.now() - started (kept up to challengeWaitMs) and polls counts its
\* page.waitForTimeout calls.
\* Top of the body of "for (const rawTargetUrl of targets)".
EnterTarget(ws, inputUrl, seen) ==
  LET rawTargetUrl == Targets(inputUrl)[ws.t]
      unsafeInputReason == classifyUnsafePreNavigationLink(rawTargetUrl)
  IN IF unsafeInputReason # ""
     THEN Return(ws, seen, TRUE,
                 buildExcludedLinkRecord(inputUrl, rawTargetUrl,
                                         policyForUrl(rawTargetUrl), unsafeInputReason))
     ELSE Continue([ws EXCEPT !.pc = "resolve", !.probe = "", !.elapsed = 0,
                              !.polls = 0], seen)

\* The call of verifySingleUrl up to its first await.
verifySingleUrl(index, inputUrl, seen) ==
  LET ws == [Idle EXCEPT !.index = index, !.attempt = 1, !.t = 1,
                         !.lastPolicy = policyForUrl(inputUrl)]
  IN IF normalizeDoiThrows(inputUrl) THEN Throw(ws, seen)
     ELSE EnterTarget(ws, inputUrl, seen)

\* The end of an iteration that did not return: next target, or the backoff.
NextTarget(ws, inputUrl, seen) ==
  IF ws.t < Len(Targets(inputUrl))
  THEN EnterTarget([ws EXCEPT !.t = @ + 1, !.targetUrl = NoUrl, !.pageUrl = NoUrl,
                              !.curlResult = <<>>,
                              !.trackingResolutionError = ""], inputUrl, seen)
  ELSE Continue([ws EXCEPT !.pc = "sleep", !.targetUrl = NoUrl, !.pageUrl = NoUrl,
                           !.curlResult = <<>>,
                           !.trackingResolutionError = ""], seen)

\* The loop over the attempts with the test "attempt <= maxRetries + 1".
AfterSleepOneMoreAttempt(ws, inputUrl, seen, maxRetries) ==
  LET slept == [ws EXCEPT !.sleeps = @ + 1] IN
  IF ws.attempt + 1 > maxRetries + 1
  THEN Return(slept, seen, FALSE,
              buildVerificationFailureRecord(inputUrl, ws.lastPolicy, ws.errors))
  ELSE EnterTarget([slept EXCEPT !.attempt = @ + 1, !.t = 1], inputUrl, seen)

\* After "await sleep(sleepMs)": the next attempt, or the failure record.
AfterSleep(ws, inputUrl, seen, maxRetries) ==
  LET slept == [ws EXCEPT !.sleeps = @ + 1] IN
  IF ws.attempt + 1 > maxRetries
  THEN Return(slept, seen, FALSE,
              buildVerificationFailureRecord(inputUrl, ws.lastPolicy, ws.errors))
  ELSE EnterTarget([slept EXCEPT !.attempt = @ + 1, !.t = 1], inputUrl, seen)

\* response is response.url of the fetch, NoUrl when the fetch threw.
resolveTrackedUrl(inputUrl, a, response) ==
  IF a.skipTrackingResolution \/ ~isTrackingUrl(inputUrl)
  THEN [resolvedUrl |-> inputUrl, usedTrackingResolution |-> FALSE,
        trackingResolutionError |-> ""]
  ELSE IF response = NoUrl
  THEN [resolvedUrl |-> inputUrl, usedTrackingResolution |-> TRUE,
        trackingResolutionError |-> "fetch failed"]
  ELSE LET resolvedUrl == maybeCanonicalArticleUrl(response) IN
       IF /\ hostForUrl(inputUrl) = "el.wiley.com"
          /\ hostForUrl(resolvedUrl) = "onlinelibrary.wiley.com"
          /\ resolvedUrl.path = "/action/cookieAbsent"
       THEN [resolvedUrl |-> inputUrl, usedTrackingResolution |-> TRUE,
             trackingResolutionError |-> "cookieAbsent"]
       ELSE [resolvedUrl |-> resolvedUrl, usedTrackingResolution |-> TRUE,
             trackingResolutionError |-> ""]

\* The selector without the test of the mode.
tryScienceDirectCurlInAnyMode(a, policyName, targetUrl, rawTargetUrl, inputUrl) ==
  \/ policyName = "sciencedirect"
  \/ isScienceDirectLikeUrl(targetUrl)
  \/ isScienceDirectLikeUrl(rawTargetUrl)
  \/ isScienceDirectLikeUrl(inputUrl)

\* The selector that sends every URL to the browser.
neverTryScienceDirectCurl(a, policyName, targetUrl, rawTargetUrl, inputUrl) == FALSE

shouldTryScienceDirectCurl(a, policyName, targetUrl, rawTargetUrl, inputUrl) ==
  /\ a.sciencedirectMode # "browser"
  /\ \/ policyName = "sciencedirect"
     \/ isScienceDirectLikeUrl(targetUrl)
     \/ isScienceDirectLikeUrl(rawTargetUrl)
     \/ isScienceDirectLikeUrl(inputUrl)

\* From the return of resolveTrackedUrl to the next await.
AfterResolve(ws0, inputUrl, a, seen, resolved) ==
  LET rawTargetUrl == Targets(inputUrl)[ws0.t]
      targetUrl == resolved.resolvedUrl
      policy == policyForUrl(targetUrl)
      ws == [ws0 EXCEPT !.targetUrl = targetUrl, !.lastPolicy = policy,
                        !.trackingResolutionError = resolved.trackingResolutionError,
                        !.net = @ \/ resolved.usedTrackingResolution]
      unsafeResolvedReason == classifyUnsafePreNavigationLink(targetUrl)
      nonArticleReason == classifyKnownNonArticleLink(targetUrl)
      next ==
        IF unsafeResolvedReason # ""
        THEN Return(ws, rememberFinalUrl(seen, targetUrl), TRUE,
                    buildExcludedLinkRecord(inputUrl, targetUrl, policy, unsafeResolvedReason))
        ELSE IF shouldSkipDuplicateFinalUrl(seen, targetUrl, inputUrl)
        THEN Return(ws, seen, TRUE,
                    buildExcludedLinkRecord(inputUrl, targetUrl, policy,
                                            "duplicate_final_url_in_batch"))
        ELSE IF nonArticleReason # ""
        THEN Return(ws, rememberFinalUrl(seen, targetUrl), TRUE,
                    buildExcludedLinkRecord(inputUrl, targetUrl, policy, nonArticleReason))
        ELSE IF shouldTryScienceDirectCurl(a, policy, targetUrl, rawTargetUrl, inputUrl)
        THEN Continue([ws EXCEPT !.pc = "curl"], seen)
        ELSE GetContext(ws, seen)
  IN Failing(next, IF resolved.trackingResolutionError = "fetch failed" THEN 1 ELSE 0)

\* An entry of the errors list of verifySingleUrl; the entries of the catch
\* block, which carry no method, are given the method "browser".
ErrorEntry(method, ws, errorName) ==
  [method |-> method, attempt |-> ws.attempt, t |-> ws.t,
   targetUrl |-> ws.targetUrl, errorName |-> errorName]

\* History: a retrieval that failed; superseded marks a lightweight fetch that
\* failed before a later fetch target of the same call answered.
Failed(entry, superseded) == [entry |-> entry, superseded |-> superseded]

FetchTargets(sourceUrl, targetUrl) ==
  uniqueStrings(<<canonicalScienceDirectArticleUrl(targetUrl), targetUrl,
                  canonicalScienceDirectArticleUrl(sourceUrl), sourceUrl>>)

\* failNames: the error names of the fetch targets that fail, in order; when
\* it is shorter than fetchTargets the next fetch target answers with page.
verifyScienceDirectViaCurl(sourceUrl, targetUrl, policyName, failNames, page) ==
  LET fetchTargets == FetchTargets(sourceUrl, targetUrl)
      errors == [k \in 1..Len(failNames) |-> failNames[k]]
  IN IF Len(failNames) >= Len(fetchTargets)
     THEN [ok |-> FALSE, record |-> <<>>, errors |-> errors]
     ELSE LET fetchTarget == fetchTargets[Len(failNames) + 1]
              effectiveUrl == Or(EffectiveUrl(fetchTarget), fetchTarget)
              record == buildRecordFromExtracted([page EXCEPT !.finalUrl = effectiveUrl],
                                                 sourceUrl, policyName)
          IN [ok |-> TRUE,
              record |-> << [record EXCEPT !.policy = policyName,
                                           !.resolvedUrl = effectiveUrl,
                                           !.retrieval = "curl_sciencedirect"] >>,
              errors |-> errors]

RECURSIVE PushAll(_, _, _, _)
\* errors with one curl entry appended for every name of names.
PushAll(errors, names, ws, asFailed) ==
  IF names = <<>> THEN errors
  ELSE PushAll(Append(errors,
                      IF asFailed
                      THEN Failed(ErrorEntry("curl_sciencedirect", ws, Head(names)), FALSE)
                      ELSE ErrorEntry("curl_sciencedirect", ws, Head(names))),
               Tail(names), ws, asFailed)

RECURSIVE Superseded(_, _, _)
Superseded(log, names, ws) ==
  IF names = <<>> THEN log
  ELSE Superseded(Append(log, Failed(ErrorEntry("curl_sciencedirect", ws, Head(names)), TRUE)),
                  Tail(names), ws)

\* From the return of verifyScienceDirectViaCurl to the next await.
AfterCurl(ws0, inputUrl, a, seen, curlResult) ==
  LET ws == [ws0 EXCEPT !.net = TRUE, !.curlResult = curlResult.record] IN
  Failing(
  IF curlResult.ok
  THEN LET record == curlResult.record[1]
           final == Or(record.resolvedUrl, Or(record.finalUrl, ws.targetUrl))
           answered == [ws EXCEPT !.failLog = Superseded(@, curlResult.errors, ws)]
           incomplete == ErrorEntry("curl_sciencedirect", ws, "IncompleteRecord")
       IN IF \/ record.status = "verified"
             \/ a.sciencedirectMode = "curl"
             \/ record.ingestDecision = "exclude"
          THEN IF shouldSkipDuplicateFinalUrl(seen, final, inputUrl)
               THEN Return(answered, seen, TRUE,
                           buildExcludedLinkRecord(inputUrl, final, policyForUrl(final),
                                                   "duplicate_final_url_in_batch"))
               ELSE Return(answered, rememberFinalUrl(seen, final), TRUE, record)
          ELSE GetContext([answered EXCEPT
                             !.errors = Append(@, incomplete),
                             !.failLog = Append(@, Failed(incomplete, FALSE))], seen)
  ELSE LET failed == [ws EXCEPT !.errors = PushAll(@, curlResult.errors, ws, FALSE),
                                !.failLog = PushAll(@, curlResult.errors, ws, TRUE)]
       IN IF a.sciencedirectMode = "curl"
          THEN NextTarget(failed, inputUrl, seen)
          ELSE GetContext(failed, seen),
  Len(curlResult.errors))

\* The catch block: the error is recorded and the page closed; closeOk tells
\* whether that page.close() resolves (it is outside any try).
Catch(ws, inputUrl, seen, errorName, closeOk) ==
  LET entry == ErrorEntry("browser", ws, errorName)
      failed == [ws EXCEPT !.errors = Append(@, entry),
                           !.failLog = Append(@, Failed(entry, FALSE))]
  IN IF closeOk THEN NextTarget(failed, inputUrl, seen)
     ELSE Failing(Throw(failed, seen), 1)

\* "await page.close(); return { ok: true, record }" inside the try block.
CloseAndReturn(ws, inputUrl, seen, record, closes) ==
  IF closes[1] THEN Return(ws, seen, TRUE, record)
  ELSE Failing(Catch(ws, inputUrl, seen, "Error", closes[2]), 1)

\* The code after waitForChallengeClear returned a probe without challenge,
\* up to the next await; landing is page.url() and closes tells which
\* page.close() calls resolve.
AfterChallengeClear(ws0, inputUrl, seen, landing, closes) ==
  LET navigatedUrl == maybeCanonicalArticleUrl(Or(landing, ws0.targetUrl))
      final == Or(navigatedUrl, ws0.targetUrl)
      effectivePolicy == policyForUrl(final)
      ws == [ws0 EXCEPT !.pageUrl = landing, !.lastPolicy = effectivePolicy]
      nonArticleAfterNav == classifyKnownNonArticleLink(navigatedUrl)
  IN IF shouldSkipDuplicateFinalUrl(seen, final, inputUrl)
     THEN CloseAndReturn(ws, inputUrl, seen,
            buildExcludedLinkRecord(inputUrl, final, effectivePolicy,
                                    "duplicate_final_url_in_batch"), closes)
     ELSE IF nonArticleAfterNav # ""
     THEN CloseAndReturn(ws, inputUrl, rememberFinalUrl(seen, final),
            buildExcludedLinkRecord(inputUrl, final, effectivePolicy,
                                    nonArticleAfterNav), closes)
     ELSE Continue([ws EXCEPT !.pc = "extract"], seen)

\* waitForChallengeClear that never waits for the challenge to clear.
probeOnce(ws0, inputUrl, a, seen, probe, landing, closes) ==
  LET ws == [ws0 EXCEPT !.probe = probe] IN
  IF probe = "error" THEN Failing(Catch(ws, inputUrl, seen, "Error", closes[2]), 1)
  ELSE IF probe = "challenge"
  THEN Catch(ws, inputUrl, seen, "ChallengeError", closes[2])
  ELSE AfterChallengeClear(ws, inputUrl, seen, landing, closes)

\* waitForChallengeClear from the return of a detectChallenge to the next
\* await: the loop test, and after the loop the test of challenge.isChallenge.
\* probe is "challenge", "clear" or "error" (detectChallenge rejects).
waitForChallengeClear(ws0, inputUrl, a, seen, probe, landing, closes) ==
  LET ws == [ws0 EXCEPT !.probe = probe] IN
  IF probe = "error" THEN Failing(Catch(ws, inputUrl, seen, "Error", closes[2]), 1)
  ELSE IF probe = "challenge" /\ ws.elapsed < a.challengeWaitMs
  THEN Continue([ws EXCEPT !.pc = "poll"], seen)
  ELSE IF probe = "challenge"
  THEN Catch(ws, inputUrl, seen, "ChallengeError", closes[2])
  ELSE AfterChallengeClear(ws, inputUrl, seen, landing, closes)

\* From page.goto to the next await.  nav is "error" (goto rejects),
\* "challenge" (the page shows a challenge at the first probe) or "ok".
AfterNavigation(ws0, inputUrl, a, seen, nav, landing, closes) ==
  IF nav = "error" THEN Failing(Catch(ws0, inputUrl, seen, "Error", closes[2]), 1)
  ELSE Failing(waitForChallengeClear(ws0, inputUrl, a, seen,
                                     IF nav = "challenge" THEN "challenge" ELSE "clear",
                                     landing, closes),
               IF nav = "challenge" THEN 1 ELSE 0)

\* From the return of page.waitForTimeout(challengePollMs) and of the
\* detectChallenge after it to the next await; delay is the time they took.
AfterPoll(ws0, inputUrl, a, seen, delay, probe, landing, closes) ==
  waitForChallengeClear([ws0 EXCEPT !.elapsed = Min(@ + delay, a.challengeWaitMs),
                                    !.polls = @ + 1],
                        inputUrl, a, seen, probe, landing, closes)

\* From the return of extractMetadata to the next await; page is <<>> when
\* extractMetadata threw, else <<what page.evaluate returned>>.
AfterExtract(ws, inputUrl, seen, page, closes) ==
  IF page = <<>> THEN Failing(Catch(ws, inputUrl, seen, "Error", closes[2]), 1)
  ELSE LET navigatedUrl == maybeCanonicalArticleUrl(Or(ws.pageUrl, ws.targetUrl))
           effectivePolicy == policyForUrl(Or(navigatedUrl, ws.targetUrl))
           built == buildRecordFromExtracted(page[1], inputUrl, effectivePolicy)
           record == [built EXCEPT !.policy = effectivePolicy,
                                   !.resolvedUrl = Or(navigatedUrl, ws.targetUrl)]
       IN CloseAndReturn(ws, inputUrl,
                         rememberFinalUrl(seen, Or(record.resolvedUrl, record.finalUrl)),
                         record, closes)

\* ------------------------------------------------------ the Wiley fallback
isChallengeFailureRecord(record) ==
  \E k \in 1..Len(record.errors) : record.errors[k].errorName = "ChallengeError"

\* /onlinelibrary\.wiley\.com|wiley\.com|10\.1002\// on the text of a URL.
MentionsWiley(u) ==
  u # NoUrl /\ (u.host \in {"onlinelibrary.wiley.com", "el.wiley.com"} \/ u.doi = "10.1002/a")

isLikelyWileyRecord(record) ==
  MentionsWiley(record.sourceUrl) \/ MentionsWiley(record.finalUrl) \/ MentionsWiley(record.doiUrl)

\* shouldRetryWithWileyFallback without the test of args.headless.
shouldRetryWhenHeaded(record, a) ==
  IF a.cdpUrl THEN FALSE
  ELSE IF record.status = "verified" THEN FALSE
  ELSE isChallengeFailureRecord(record) /\ isLikelyWileyRecord(record)

shouldRetryWithWileyFallback(record, a) ==
  IF ~a.headless \/ a.cdpUrl THEN FALSE
  ELSE IF record.status = "verified" THEN FALSE
  ELSE isChallengeFailureRecord(record) /\ isLikelyWileyRecord(record)

\* ---------------------------------------------------------------- actions
Active == phase \in {"initial", "fallback"}

AllSpawned == spawned = Runners(passArgs.concurrency, passUrls)

\* The effect of one continuation of worker w on the shared state.  A throw
\* rejects Promise.all at once, whatever the other runners are doing; the
\* finally block of runVerificationPass closes the browser if browserState is
\* set, and main rejects: the process exits with status 1 and writes no output.
Apply(w, st) ==
  /\ st.cost <= faultsLeft
  /\ faultsLeft' = faultsLeft - st.cost
  /\ IF st.thrown
     THEN /\ phase' = "aborted"
          /\ workers' = [workers EXCEPT ![w] = [st.ws EXCEPT !.pc = "thrown"]]
          /\ browserState' = IF browserState = "open" THEN "closed" ELSE browserState
          /\ UNCHANGED <<results, seenFinalUrls, launches>>
     ELSE /\ phase' = phase
          /\ workers' = [workers EXCEPT ![w] = IF st.ret # <<>> THEN Idle ELSE st.ws]
          /\ results' = IF st.ret # <<>> THEN [results EXCEPT ![st.ws.index] = st.ret]
                        ELSE results
          /\ seenFinalUrls' = st.seen
          /\ browserState' = IF st.ctx /\ browserState = "none" THEN "launching"
                             ELSE browserState
          /\ launches' = IF st.ctx /\ browserState = "none" THEN launches + 1
                         ELSE launches

\* mapLimit.runWorker: take the next index and call the worker on it.
runWorker(w) ==
  /\ Active
  /\ workers[w].pc = "idle"
  /\ IF AllSpawned THEN spawned' = spawned
     ELSE w = spawned + 1 /\ spawned' = spawned + 1
  /\ cursor' = cursor + 1
  /\ IF cursor > Len(passUrls)
     THEN /\ workers' = [workers EXCEPT ![w] = Done]
          /\ UNCHANGED <<phase, results, seenFinalUrls, browserState, launches, taken,
                         faultsLeft>>
     ELSE /\ taken' = [taken EXCEPT ![cursor] = @ + 1]
          /\ Apply(w, verifySingleUrl(cursor, passUrls[cursor], seenFinalUrls))
  /\ UNCHANGED <<args, urls, passUrls, passArgs, initialResults, fallbackRuns, output,
                 site>>

Step(w, pc) == Active /\ AllSpawned /\ workers[w].pc = pc

Frame == UNCHANGED <<args, urls, passUrls, passArgs, cursor, spawned, initialResults,
                     fallbackRuns, output, site, taken>>

ResolveDone(w) ==
  /\ Step(w, "resolve")
  /\ LET ws == workers[w]
         inputUrl == passUrls[ws.index]
         rawTargetUrl == Targets(inputUrl)[ws.t]
     IN \E response \in TrackerResponses(rawTargetUrl) \cup {NoUrl} :
          Apply(w, AfterResolve(ws, inputUrl, passArgs, seenFinalUrls,
                                resolveTrackedUrl(rawTargetUrl, passArgs, response)))
  /\ Frame

CurlDone(w) ==
  /\ Step(w, "curl")
  /\ LET ws == workers[w]
         inputUrl == passUrls[ws.index]
     IN \E failNames \in UNION {[1..k -> {"Error", "ChallengeError"}] :
                                  k \in 0..Len(FetchTargets(inputUrl, ws.targetUrl))},
           page \in PageContents(ws.targetUrl) :
          Apply(w, AfterCurl(ws, inputUrl, passArgs, seenFinalUrls,
                   verifyScienceDirectViaCurl(inputUrl, ws.targetUrl, ws.lastPolicy,
                                              failNames, page)))
  /\ Frame

\* initBrowser settles.
InitBrowserDone ==
  /\ Active /\ browserState = "launching"
  /\ \E ok \in BOOLEAN :
       /\ ok \/ faultsLeft > 0
       /\ browserState' = IF ok THEN "open" ELSE "failed"
       /\ faultsLeft' = IF ok THEN faultsLeft ELSE faultsLeft - 1
  /\ UNCHANGED <<args, urls, phase, passUrls, passArgs, cursor, spawned, results,
                 workers, seenFinalUrls, initialResults, fallbackRuns, output,
                 site, taken, launches>>

\* "await getContext()" and "await context.newPage()" resolve or reject.
ContextReady(w) ==
  /\ Step(w, "context")
  /\ browserState \in {"open", "failed"}
  /\ LET ws == [workers[w] EXCEPT !.net = TRUE] IN
     \E newPageOk \in BOOLEAN :
       Apply(w, IF browserState = "failed" THEN Throw(ws, seenFinalUrls)
                ELSE IF ~newPageOk THEN Failing(Throw(ws, seenFinalUrls), 1)
                ELSE Continue([ws EXCEPT !.pc = "goto"], seenFinalUrls))
  /\ Frame

NavigationDone(w) ==
  /\ Step(w, "goto")
  /\ LET ws == workers[w]
         inputUrl == passUrls[ws.index]
     IN \E nav \in {"error", "challenge", "ok"}, closes \in [1..2 -> BOOLEAN],
           landing \in BrowserLandings(ws.targetUrl) :
          Apply(w, AfterNavigation(ws, inputUrl, passArgs, seenFinalUrls, nav, landing,
                                   closes))
  /\ Frame

\* The challenge wait: one more poll interval has passed.
PollDone(w) ==
  /\ Step(w, "poll")
  /\ LET ws == workers[w]
         inputUrl == passUrls[ws.index]
     IN \E delay \in {passArgs.challengePollMs, 2 * passArgs.challengePollMs},
           probe \in {"challenge", "clear", "error"}, closes \in [1..2 -> BOOLEAN],
           landing \in BrowserLandings(ws.targetUrl) :
          Apply(w, AfterPoll(ws, inputUrl, passArgs, seenFinalUrls, delay, probe,
                             landing, closes))
  /\ Frame

ExtractDone(w) ==
  /\ Step(w, "extract")
  /\ LET ws == workers[w]
         inputUrl == passUrls[ws.index]
     IN \E page \in {<<>>} \cup {<<c>> : c \in PageContents(ws.pageUrl)},
           closes \in [1..2 -> BOOLEAN] :
          Apply(w, AfterExtract(ws, inputUrl, seenFinalUrls, page, closes))
  /\ Frame

SleepDone(w) ==
  /\ Step(w, "sleep")
  /\ LET ws == workers[w]
     IN Apply(w, AfterSleep(ws, passUrls[ws.index], seenFinalUrls, passArgs.maxRetries))
  /\ Frame

\* -------------------------------------------------------------------- main
RECURSIVE Records(_)
Records(items) ==
  IF items = <<>> THEN <<>> ELSE <<Head(items)[1].record>> \o Records(Tail(items))

RECURSIVE RetrySourceUrls(_, _)
\* The sourceUrl of the records that shouldRetryWithWileyFallback accepts.
RetrySourceUrls(records, a) ==
  IF records = <<>> THEN <<>>
  ELSE (IF shouldRetryWithWileyFallback(Head(records), a)
        THEN <<Head(records).sourceUrl>> ELSE <<>>) \o RetrySourceUrls(Tail(records), a)

\* The merge that keeps every record of the initial pass.
ReplaceNothing(item, fallbackResults) == item

\* replacementBySource.get(key) || item
Replace(item, fallbackResults) ==
  LET hits == {k \in 1..Len(fallbackResults) :
                 fallbackResults[k][1].record.sourceUrl = item[1].record.sourceUrl}
  IN IF hits = {} THEN item
     ELSE fallbackResults[CHOOSE k \in hits : \A j \in hits : j <= k]

Output(items, runs) ==
  LET records == Records(items) IN
  [inputCount |-> Len(urls),
   verifiedCount |-> Cardinality({k \in 1..Len(records) : records[k].status = "verified"}),
   notVerifiedCount |-> Cardinality({k \in 1..Len(records) : records[k].status # "verified"}),
   fallbackRuns |-> runs,
   records |-> records]

AllDone == AllSpawned /\ \A w \in 1..MaxConcurrency : workers[w].pc \in {"done", "off"}

\* main after the initial pass: write the output, or start the fallback pass.
FinishInitialPass ==
  /\ phase = "initial" /\ AllDone
  /\ LET retrySourceUrls == uniqueStrings(RetrySourceUrls(Records(results), args))
     IN IF retrySourceUrls = <<>>
        THEN /\ phase' = "done"
             /\ output' = <<Output(results, <<>>)>>
             /\ browserState' = IF browserState = "open" THEN "closed" ELSE browserState
             /\ UNCHANGED <<passUrls, passArgs, cursor, spawned, results, workers,
                            initialResults, fallbackRuns, taken, launches>>
        ELSE \E autoCdpUrl \in BOOLEAN :
             /\ phase' = "fallback"
             /\ initialResults' = results
             /\ passUrls' = retrySourceUrls
             /\ passArgs' = [args EXCEPT
                               !.cdpUrl = autoCdpUrl, !.headless = FALSE,
                               !.concurrency = 1,
                               !.challengeWaitMs =
                                 IF autoCdpUrl \/ @ > HeadedRetryWaitMs THEN @
                                 ELSE HeadedRetryWaitMs]
             /\ fallbackRuns' = fallbackRuns
             /\ cursor' = 1
             /\ spawned' = 0
             /\ results' = [k \in 1..Len(retrySourceUrls) |-> <<>>]
             /\ workers' = [w \in 1..MaxConcurrency |-> IF w = 1 THEN Idle ELSE Off]
             /\ browserState' = "none"
             /\ taken' = [k \in 1..Len(retrySourceUrls) |-> 0]
             /\ launches' = 0
             /\ output' = output
  /\ UNCHANGED <<args, urls, seenFinalUrls, site, faultsLeft>>

\* main after the fallback pass: replace by source URL and write the output.
FinishFallbackPass ==
  /\ phase = "fallback" /\ AllDone
  /\ phase' = "done"
  /\ fallbackRuns' = Append(fallbackRuns,
                            [type |-> IF passArgs.cdpUrl THEN "wiley_challenge_auto_cdp"
                                      ELSE "wiley_challenge_headed_retry",
                             urls |-> passUrls])
  /\ output' = <<Output([k \in 1..Len(initialResults) |->
                           Replace(initialResults[k], results)], fallbackRuns')>>
  /\ browserState' = IF browserState = "open" THEN "closed" ELSE browserState
  /\ UNCHANGED <<args, urls, passUrls, passArgs, cursor, spawned, results, workers,
                 seenFinalUrls, initialResults, site, taken, launches, faultsLeft>>

Next ==
  \/ \E w \in 1..MaxConcurrency : runWorker(w)
  \/ \E w \in 1..MaxConcurrency : ResolveDone(w)
  \/ \E w \in 1..MaxConcurrency : CurlDone(w)
  \/ InitBrowserDone
  \/ \E w \in 1..MaxConcurrency : ContextReady(w)
  \/ \E w \in 1..MaxConcurrency : NavigationDone(w)
  \/ \E w \in 1..MaxConcurrency : PollDone(w)
  \/ \E w \in 1..MaxConcurrency : ExtractDone(w)
  \/ \E w \in 1..MaxConcurrency : SleepDone(w)
  \/ FinishInitialPass
  \/ FinishFallbackPass

\* ---------------------------------------------------------- initial states
\* The non-empty sequences of at most n distinct URLs of pool.
Batches(pool, n) ==
  {b \in UNION {[1..k -> pool] : k \in 1..n} :
     \A i, j \in 1..Len(b) : i # j => b[i] # b[j]}

\* A page that shows every field, and the pages that lack some of them.
FullSite ==
  [title |-> "T", authors |-> <<"Jane Doe">>, journal |-> "J",
   publicationDate |-> "2024-05-01", volume |-> "12", issue |-> "",
   pageRange |-> "", showsDoi |-> TRUE, abstractText |-> "A",
   articleTypeMetaHint |-> "Research Article", pageTitle |-> "T | J"]

Sites ==
  [title : {"", "T"}, authors : {<<>>, <<"Jane Doe">>}, journal : {"", "J"},
   publicationDate : {"", "2024-05-01"}, volume : {"", "12"}, issue : {"", "3"},
   pageRange : {"", "1-10"}, showsDoi : BOOLEAN, abstractText : {"", "A"},
   articleTypeMetaHint : {"", "Research Article", "Book Review"}, pageTitle : {"T"}]

Start(a, batch, pages, faults) ==
  /\ args = a
  /\ urls = batch
  /\ phase = "initial"
  /\ passUrls = batch
  /\ passArgs = a
  /\ cursor = 1
  /\ spawned = 0
  /\ results = [k \in 1..Len(batch) |-> <<>>]
  /\ workers = [w \in 1..MaxConcurrency |->
                  IF w <= Runners(a.concurrency, batch) THEN Idle ELSE Off]
  /\ browserState = "none"
  /\ seenFinalUrls = {}
  /\ initialResults = <<>>
  /\ fallbackRuns = <<>>
  /\ output = <<>>
  /\ site = pages
  /\ faultsLeft = faults
  /\ taken = [k \in 1..Len(batch) |-> 0]
  /\ launches = 0

Args(conc, retries, headless, cdp, mode, skip) ==
  [concurrency |-> conc, maxRetries |-> retries, headless |-> headless,
   cdpUrl |-> cdp, sciencedirectMode |-> mode, skipTrackingResolution |-> skip,
   challengeWaitMs |-> 30000, challengePollMs |-> 30000]

\* Batches: every worker interleaving of the passes of a batch.
BatchPool == {WileyArticle, WileyTracker1, WileyTracker2, SdArticle, UndecodableArticle}

Init ==
  \E conc \in 1..MaxConcurrency, headless \in BOOLEAN, batch \in Batches(BatchPool, MaxBatch) :
    Start(Args(conc, 1, headless, FALSE, "auto", FALSE), batch, FullSite, MaxFaults)

Spec == Init /\ [][Next]_vars

\* One URL: every kind of link under every setting of the command line.
UrlPool ==
  {WileyArticle, WileyArticleHash, WileyToc, WileyTracker1, WileyTracker3, AomTracker,
   SageArticle, SageArticleNoAbstract, SdArticle, SdArticleNoAbstract,
   canonicalScienceDirectArticleUrl(SdArticle), SdDoi,
   UnsubscribeLink, ManageAlertsLink, MailtoLink, FixtureFile,
   UndecodableArticle, UndecodableUnsubscribe, MalformedFtp}

\* A book review, which shows no abstract.
ReviewSite ==
  [FullSite EXCEPT !.articleTypeMetaHint = "Book Review", !.abstractText = ""]

InitUrl ==
  \E url \in UrlPool, retries \in 1..MaxRetries, headless \in BOOLEAN,
     mode \in {"auto", "curl", "browser"}, skip \in BOOLEAN,
     pages \in {FullSite, ReviewSite}, polls \in 0..MaxPolls :
    Start([Args(1, retries, headless, FALSE, mode, skip)
             EXCEPT !.challengeWaitMs = polls * @],
          <<url>>, pages, MaxUrlFaults)

SpecUrl == InitUrl /\ [][Next]_vars

\* One URL whose page shows any subset of the fields.
RecordPool == {WileyTracker1, SdArticle, AomProceedings}

InitRecord ==
  \E url \in RecordPool, pages \in Sites :
    Start(Args(1, 1, TRUE, FALSE, "auto", FALSE), <<url>>, pages, MaxFaults)

SpecRecord == InitRecord /\ [][Next]_vars

\* ------------------------------------------------- the exported functions
\* A call of one function of the module on its own: args holds the name of
\* the function and its arguments, output what it returned.
ClassifierInputs ==
  LET labels == <<"publisher_raw_type", "publisher_dom_type", "publisher_jsonld_type">>
      texts == {"", "Dataset", "Original Paper", "Book Review", "Research Article"}
  IN [fn : {"classifyArticleType"},
      policyName : {"springer_link", "wiley"},
      rawTypeHints :
        UNION {{[i \in 1..k |-> [value |-> v[i], sourceLabel |-> labels[i]]] :
                  v \in [1..k -> texts]} : k \in 0..Min(MaxHints, 3)},
      semanticHints :
        {<< [value |-> title, sourceLabel |-> "title_heuristic"],
            [value |-> pageTitle, sourceLabel |-> "page_title_heuristic"] >> :
           title \in {"", "T", "A Perspective on X", "Book Review"},
           pageTitle \in {"", "T | J", "A Perspective on X"}}]

\* abstractFromDom, then the description meta tags of the page.
AbstractInputs ==
  LET dom == {NoAbstract} \cup
             [origin : {"dom"}, length : {251, 300}, ellipsis : {FALSE},
              boilerplate : BOOLEAN]
      meta == [origin : {"meta"}, length : {100, 370, 371, 372, 450},
               ellipsis : BOOLEAN, boilerplate : {FALSE}]
  IN [fn : {"chooseBestAbstractLocal"},
      candidates : {<<d>> \o m : d \in dom,
                                 m \in UNION {[1..k -> meta] : k \in 0..MaxMeta}}]

\* Records as normalizeRecord hands them to buildApaCitation: every field a
\* text, the "[Not verified]" of ensureField or empty.
CitationInputs ==
  [fn : {"buildApaCitation"},
   authors : {<<>>, <<"Jane Doe">>, <<"Dr. Jane Doe", "John Roe">>},
   year : {"", "2024"},
   title : {NotVerified, "T"},
   journal : {NotVerified, "J"},
   doiUrl : {NoUrl, Url("https", "doi.org", "/", "10.1/a", "", FALSE)},
   volume : {"", NotVerified, "12"},
   issue : {NotVerified, "3"},
   pageRange : {NotVerified, "1-10"},
   publishedOnline : {"", NotVerified, "2024-05-01"}]

\* DOI-bearing texts in the shapes SKILL.md lists: bare, with a doi: prefix,
\* as a doi.org or dx.doi.org URL, in either case; the registrant of four or
\* five digits and a suffix of characters the DOI pattern accepts.
DoiInputs ==
  LET prefix == {<<>>, <<"doi:">>, <<"DOI:", " ">>, <<"https://doi.org/">>,
                 <<"http://dx.doi.org/">>, <<"HTTPS://DX.DOI.ORG/">>}
      registrant == {<<"1", "2", "3", "4">>, <<"1", "2", "3", "4", "7">>}
      char == {"a", "X", "7", ".", ")", "%2F"}
      suffix == UNION {[1..k -> char] : k \in 1..MaxSuffix}
      after == {<<>>, <<" ">>}
  IN [fn : {"normalizeDoi"},
      text : {p \o <<"1", "0", ".">> \o r \o <<"/">> \o x \o t :
                p \in prefix, r \in registrant, x \in suffix, t \in after}]

\* Author names of personal, one-word and corporate form, the honorifics at
\* every place.
AuthorInputs ==
  [fn : {"formatApaAuthor"},
   name : UNION {[1..k -> {"Dr.", "Professor", "Jane", "Doe,", "Group"}] :
                   k \in 1..MaxWords}]

\* What the two extractors hand over for a page that gives authors in the
\* kinds of the set found: extractMetadataFromScienceDirectHtml of the lightweight fetch
\* reads no DOM list, the browser's extractMetadata no preloaded state.
ExtractedAuthors(path, found) ==
  LET Of(kind) == IF kind \in found THEN <<kind>> ELSE <<>>
      First(kinds) ==
        LET some == {i \in 1..Len(kinds) : kinds[i] \in found}
        IN IF some = {} THEN "" ELSE kinds[CHOOSE i \in some : \A j \in some : i <= j]
      authorsKind ==
        IF path = "curl"
        THEN First(<<"preloaded_text", "meta", "jsonld_name">>)
        ELSE First(<<"meta", "dom", "jsonld_person", "jsonld_name">>)
      authorsSourceKind ==
        IF path = "curl"
        THEN First(<<"preloaded_structured", "preloaded_text", "meta",
                     "jsonld_person", "jsonld_name">>)
        ELSE authorsKind
      structuredKind ==
        IF path = "curl" THEN First(<<"preloaded_structured", "jsonld_person">>)
        ELSE First(<<"jsonld_person">>)
  IN [authors |-> Of(authorsKind),
      authorsFromMeta |-> Of("meta"),
      authorsFromDom |-> IF path = "curl" THEN <<>> ELSE Of("dom"),
      authorsFromJsonLdNames |-> Of("jsonld_name"),
      authorsFromPreloadedText |-> IF path = "curl" THEN Of("preloaded_text") ELSE <<>>,
      authorsSourceKind |-> authorsSourceKind,
      authorsStructuredCandidates |-> Of(structuredKind),
      authorsStructuredSourceKind |-> structuredKind]

\* The lightweight fetch serves ScienceDirect articles, under the policy of
\* the host or, for a DOI link, the default hints.
AuthorSourceInputs ==
  [fn : {"selectAuthorSourceForRecord"},
   policyName : {"sciencedirect", "default"},
   extracted :
     {ExtractedAuthors("curl", found) :
        found \in SUBSET {"meta", "jsonld_name", "jsonld_person",
                          "preloaded_text", "preloaded_structured"}}]
  \cup
  [fn : {"selectAuthorSourceForRecord"},
   policyName : {"wiley", "aom_atypon", "sciencedirect", "default"},
   extracted :
     {ExtractedAuthors("browser", found) :
        found \in SUBSET {"meta", "dom", "jsonld_name", "jsonld_person"}}]

InitFn ==
  /\ args \in ClassifierInputs \cup AbstractInputs \cup CitationInputs
              \cup DoiInputs \cup AuthorInputs \cup AuthorSourceInputs
  /\ urls = <<>> /\ passUrls = <<>> /\ passArgs = args
  /\ phase = "call"
  /\ cursor = 1 /\ spawned = 0
  /\ results = <<>> /\ initialResults = <<>> /\ fallbackRuns = <<>>
  /\ workers = [w \in 1..MaxConcurrency |-> Off]
  /\ browserState = "none"
  /\ seenFinalUrls = {}
  /\ output = <<>>
  /\ site = FullSite
  /\ faultsLeft = 0
  /\ taken = <<>>
  /\ launches = 0

FnFrame == UNCHANGED <<args, urls, phase, passUrls, passArgs, cursor, spawned, results,
                       workers, browserState, seenFinalUrls, initialResults,
                       fallbackRuns, site, faultsLeft, taken, launches>>

CallClassifyArticleType ==
  /\ args.fn = "classifyArticleType" /\ output = <<>>
  /\ output' = <<classifyArticleType(args.policyName, args.rawTypeHints,
                                     args.semanticHints)>>
  /\ FnFrame

CallChooseBestAbstractLocal ==
  /\ args.fn = "chooseBestAbstractLocal" /\ output = <<>>
  /\ output' = <<chooseBestAbstractLocal(args.candidates)>>
  /\ FnFrame

CallBuildApaCitation ==
  /\ args.fn = "buildApaCitation" /\ output = <<>>
  /\ output' = <<buildApaCitation(args)>>
  /\ FnFrame

\* normalizeDoi of the text, then of what it returned.
CallNormalizeDoi ==
  /\ args.fn = "normalizeDoi" /\ Len(output) < 2
  /\ output' = Append(output, normalizeDoiText(IF output = <<>> THEN args.text
                                                ELSE output[1]))
  /\ FnFrame

CallFormatApaAuthor ==
  /\ args.fn = "formatApaAuthor" /\ output = <<>>
  /\ output' = <<formatApaAuthorParsed(args.name)>>
  /\ FnFrame

CallSelectAuthorSourceForRecord ==
  /\ args.fn = "selectAuthorSourceForRecord" /\ output = <<>>
  /\ output' = <<selectAuthorSourceForRecord(args.extracted, args.policyName)>>
  /\ FnFrame

NextFn ==
  \/ CallClassifyArticleType
  \/ CallChooseBestAbstractLocal
  \/ CallBuildApaCitation
  \/ CallNormalizeDoi
  \/ CallFormatApaAuthor
  \/ CallSelectAuthorSourceForRecord

SpecFn == InitFn /\ [][NextFn]_vars

\* ----------------------------------------------------------- the properties
RunEnded == phase \in {"done", "aborted"}

Statuses == {"verified", "not_verified", "excluded"}

\* The items of the pass in progress that have been produced.
Produced == {i \in 1..Len(results) : results[i] # <<>>}

\* C1: for a batch of n accepted input URLs the engine outputs exactly n
\* records, the i-th with sourceUrl equal to the i-th input URL and a status
\* among verified, not_verified and excluded, under every interleaving and
\* after the replacement by the escalation pass, and verifiedCount +
\* notVerifiedCount = inputCount.
C1_OneRecordPerInputUrl ==
  RunEnded =>
    /\ output # <<>>
    /\ Len(output[1].records) = Len(urls)
    /\ \A i \in 1..Len(urls) :
         /\ output[1].records[i].sourceUrl = urls[i]
         /\ output[1].records[i].status \in Statuses
    /\ output[1].verifiedCount + output[1].notVerifiedCount = output[1].inputCount

\* C2: no failure while one URL is processed escapes verifySingleUrl or
\* aborts the batch; the run always ends with a record for every URL.
C2_NoFailureAbortsTheBatch ==
  /\ phase # "aborted"
  /\ phase = "done" => Len(output[1].records) = Len(urls)

\* The entries of a log of failed retrievals, in order.
Entries(log) == [k \in 1..Len(log) |-> log[k].entry]

\* Worker w threw in the catch block of the last retrieval of the last attempt.
ThrewAfterLastRetrieval(w) ==
  LET ws == workers[w] IN
  /\ ws.pc = "thrown"
  /\ ws.attempt = passArgs.maxRetries
  /\ ws.t = Len(Targets(passUrls[ws.index]))
  /\ ws.failLog # <<>>
  /\ ws.failLog[Len(ws.failLog)].entry.attempt = ws.attempt
  /\ ws.failLog[Len(ws.failLog)].entry.t = ws.t

\* C3: when every attempt for a URL has failed, verifySingleUrl returns a
\* record with status not_verified and ingestReason verification_failed whose
\* errors list holds, in order, one entry for every failed retrieval of every
\* attempt.
C3_ExhaustedAttemptsKeepEveryError ==
  /\ \A i \in Produced :
       ~results[i][1].ok =>
         /\ results[i][1].record.status = "not_verified"
         /\ results[i][1].record.ingestReason = "verification_failed"
         /\ results[i][1].record.errors = Entries(results[i][1].audit.failLog)
  /\ \A w \in 1..MaxConcurrency : ~ThrewAfterLastRetrieval(w)

\* The text of u matches an unsubscribe or alert-management pattern.
MatchesUnsafePattern(u) == u.path \in UnsubscribePaths \cup ManagementPaths

\* C4: for an input URL that matches an unsafe pre-navigation pattern
\* verifySingleUrl returns an excluded record on the first attempt, with no
\* tracking-resolution fetch, lightweight fetch, browser or backoff sleep.
C4_UnsafeLinkExcludedWithoutNetwork ==
  \A i \in 1..Len(passUrls) :
    MatchesUnsafePattern(passUrls[i]) /\ taken[i] > 0 =>
      /\ results[i] # <<>>
      /\ results[i][1].record.status = "excluded"
      /\ results[i][1].audit.attempt = 1
      /\ ~results[i][1].audit.net
      /\ results[i][1].audit.sleeps = 0
      /\ Len(passUrls) = 1 => launches = 0

\* C5: every input URL whose scheme is neither http nor https is classified
\* as unsafe by classifyUnsafePreNavigationLink and yields an excluded record
\* instead of being retrieved.
C5_NonHttpSchemeExcluded ==
  \A i \in 1..Len(passUrls) :
    passUrls[i].scheme \notin {"http", "https"} /\ taken[i] > 0 =>
      /\ classifyUnsafePreNavigationLink(passUrls[i]) # ""
      /\ results[i] # <<>>
      /\ results[i][1].record.status = "excluded"
      /\ ~results[i][1].audit.net

\* The normalized final URL an input URL resolves to.
FinalKey(u) ==
  normalizeFinalUrlForRunDedupe(IF isTrackingUrl(u) THEN TrackerDestination(u) ELSE u)

Duplicate(record) == record.ingestReason = "duplicate_final_url_in_batch"

\* C6: two distinct input URLs of one batch that resolve to the same
\* normalized final URL yield exactly one non-duplicate record and exactly one
\* record excluded as duplicate_final_url_in_batch, whether they are tracker
\* links, direct article URLs or variants of each other.
C6_OneOfTwoConvergingUrlsIsDuplicate ==
  phase = "done" =>
    \A i, j \in 1..Len(urls) :
      LET a == output[1].records[i]
          b == output[1].records[j]
      IN /\ i < j
         /\ FinalKey(urls[i]) = FinalKey(urls[j])
         /\ a.ingestReason # "verification_failed"
         /\ b.ingestReason # "verification_failed"
         => (Duplicate(a) /\ ~Duplicate(b)) \/ (~Duplicate(a) /\ Duplicate(b))

\* The normalized final URL of a record that was retrieved.
RecordKey(record) == normalizeFinalUrlForRunDedupe(Or(record.resolvedUrl, record.finalUrl))

\* C7: with two or more concurrent workers no interleaving lets two workers
\* both pass the duplicate check for one normalized final URL and both return
\* a non-duplicate record.
C7_CheckAndMarkAreAtomic ==
  passArgs.concurrency >= 2 =>
    \A i, j \in Produced :
      LET a == results[i][1]
          b == results[j][1]
      IN /\ i < j
         /\ isTrackingUrl(passUrls[i]) /\ isTrackingUrl(passUrls[j])
         /\ a.ok /\ b.ok
         /\ RecordKey(a.record) = RecordKey(b.record)
         => Duplicate(a.record) \/ Duplicate(b.record)

RequiredFields == {"title", "doiUrl", "journal", "year", "abstract", "citation"}

\* The field of the record holds the unverified sentinel.
IsSentinel(record, key) ==
  CASE key = "doiUrl" -> record.doiUrl = NoUrl
    [] key = "citation" -> record.citation.form = "nv"
    [] OTHER -> record[key] = NotVerified

RECURSIVE ItemRecords(_)
ItemRecords(items) ==
  IF items = <<>> THEN {}
  ELSE (IF Head(items) = <<>> THEN {} ELSE {Head(items)[1].record})
       \cup ItemRecords(Tail(items))

\* Every record produced so far, by either pass or in the output.
AllRecords ==
  ItemRecords(results) \cup ItemRecords(initialResults)
  \cup (IF output = <<>> THEN {}
        ELSE {output[1].records[k] : k \in 1..Len(output[1].records)})

\* C8: every record the engine outputs, extracted, excluded or failure, has
\* status verified exactly when none of title, doiUrl, journal, year,
\* abstract and citation is the unverified sentinel.
C8_VerifiedIffNoRequiredFieldMissing ==
  \A record \in AllRecords :
    record.status = "verified" <=> \A key \in RequiredFields : ~IsSentinel(record, key)

\* An extracted record that lacks only its abstract is in the output.
C8_Witness ==
  /\ phase = "done"
  /\ \E k \in 1..Len(output[1].records) :
       LET record == output[1].records[k] IN
       /\ record.status = "not_verified"
       /\ IsSentinel(record, "abstract")
       /\ \A key \in RequiredFields \ {"abstract"} : ~IsSentinel(record, key)

\* The workers that are processing a URL.
InFlight == {w \in 1..MaxConcurrency : workers[w].pc \notin {"idle", "off", "done"}}

RECURSIVE Sum(_)
Sum(counts) == IF counts = <<>> THEN 0 ELSE Head(counts) + Sum(Tail(counts))

\* C9: during a pass at most `concurrency` URLs are being processed, each
\* index is taken by one worker only and by the end of the pass by exactly
\* one, and a worker takes its next URL only once the record of its current
\* URL is produced: every index taken is produced or still with its worker.
C9_AtMostConcurrencyInFlight ==
  /\ Cardinality(InFlight) <= passArgs.concurrency
  /\ \A i \in 1..Len(taken) : taken[i] <= 1
  /\ \A v, w \in InFlight : v # w => workers[v].index # workers[w].index
  /\ \A w \in InFlight : taken[workers[w].index] = 1 /\ results[workers[w].index] = <<>>
  /\ Sum(taken) = Cardinality(Produced) + Cardinality(InFlight)
  /\ Active /\ AllDone => \A i \in 1..Len(passUrls) : taken[i] = 1 /\ results[i] # <<>>

\* One worker, at its second URL after the record of the first was produced.
C9_Witness ==
  /\ passArgs.concurrency = 1
  /\ Len(passUrls) >= 2
  /\ results[1] # <<>>
  /\ \E w \in InFlight : workers[w].index = 2

\* The record is not verified, carries a challenge failure and belongs to
\* the Wiley family.
QualifiesRecord(record) ==
  /\ record.status # "verified"
  /\ \E k \in 1..Len(record.errors) : record.errors[k].errorName = "ChallengeError"
  /\ \E u \in {record.sourceUrl, record.finalUrl, record.doiUrl} : MentionsWiley(u)

Qualifies(i) == QualifiesRecord(initialResults[i][1].record)

\* main has started the escalation pass.
Escalated == initialResults # <<>>

EscalatedAt(u) ==
  IF \E j \in 1..Len(passUrls) : passUrls[j] = u
  THEN CHOOSE j \in 1..Len(passUrls) : passUrls[j] = u
  ELSE 0

\* The normalized final URLs of the records the initial pass verified.
SeenInInitialPass ==
  {RecordKey(initialResults[i][1].record) :
     i \in {k \in 1..Len(initialResults) :
              initialResults[k][1].ok /\ initialResults[k][1].record.status = "verified"}}
  \ {NoUrl}

\* C11: after an escalation pass the output holds, for every escalated source
\* URL, the record of the escalation pass, and for every other URL its
\* initial-pass record at the same position; at most one escalation pass runs;
\* it runs one URL at a time and on the seen-set of the initial pass, which it
\* reads (a URL landing on a final URL the initial pass verified is excluded
\* as a duplicate) and extends (nothing the initial pass marked is dropped).
C11_EscalationReplacesBySourceUrl ==
  /\ phase = "done" /\ Escalated =>
       /\ Len(output[1].records) = Len(urls)
       /\ \A k \in 1..Len(urls) :
            output[1].records[k] =
              IF EscalatedAt(urls[k]) # 0 THEN results[EscalatedAt(urls[k])][1].record
              ELSE initialResults[k][1].record
  /\ Len(fallbackRuns) <= 1
  /\ phase = "fallback" => fallbackRuns = <<>>
  /\ phase = "fallback" => passArgs.concurrency = 1 /\ Cardinality(InFlight) <= 1
  /\ Escalated =>
       /\ SeenInInitialPass \subseteq seenFinalUrls
       /\ \A j \in Produced :
            LET item == results[j][1] IN
            /\ item.ok
            /\ RecordKey(item.record) \in SeenInInitialPass
            /\ normalizeFinalUrlForRunDedupe(passUrls[j]) # RecordKey(item.record)
            => Duplicate(item.record)

\* The output of a batch of two: the tracker link, blocked by a challenge in
\* the initial pass, comes back from the escalation pass as a duplicate of
\* the article the initial pass verified, whose record is kept.
C11_Witness ==
  /\ phase = "done" /\ Escalated
  /\ Len(urls) = 2
  /\ \E k, n \in 1..2 :
       /\ EscalatedAt(urls[k]) # 0
       /\ Duplicate(output[1].records[k])
       /\ EscalatedAt(urls[n]) = 0
       /\ output[1].records[n].status = "verified"

\* Item i of the pass is a ScienceDirect-family URL processed in auto mode.
AutoScienceDirect(i) ==
  passArgs.sciencedirectMode = "auto" /\ isScienceDirectLikeUrl(passUrls[i])

\* The record came from the lightweight fetch.
ViaCurl(record) == record.retrieval = "curl_sciencedirect"

\* The retrievals of the log made by the lightweight fetch in the given
\* attempt whose failure was recorded in the errors list.
CurlFailures(log, attempt) ==
  {k \in 1..Len(log) :
     /\ log[k].entry.method = "curl_sciencedirect"
     /\ log[k].entry.attempt = attempt
     /\ ~log[k].superseded}

\* C12: in auto mode a ScienceDirect-family URL reaches the browser in an
\* attempt only after the lightweight fetch of that attempt, against the same
\* target URL, and only when the fetch failed or gave a record neither
\* verified nor excluded by article type, for which an IncompleteRecord error
\* is recorded; a record of the lightweight fetch is returned only when it is
\* verified or excluded by article type, and then without any browser step.
C12_LightweightFetchBeforeBrowser ==
  /\ \A w \in InFlight :
       LET ws == workers[w] IN
       ws.pc \in {"context", "goto", "extract"} /\ AutoScienceDirect(ws.index) =>
         /\ ws.errors # <<>>
         /\ LET last == ws.errors[Len(ws.errors)] IN
            /\ last.method = "curl_sciencedirect"
            /\ last.attempt = ws.attempt
            /\ last.t = ws.t
            /\ last.targetUrl = ws.targetUrl
            /\ (last.errorName = "IncompleteRecord") <=> (ws.curlResult # <<>>)
         /\ ws.curlResult # <<>> =>
              /\ ws.curlResult[1].status # "verified"
              /\ ws.curlResult[1].ingestDecision # "exclude"
  /\ \A i \in Produced :
       LET item == results[i][1] IN
       AutoScienceDirect(i) /\ item.ok =>
         /\ ViaCurl(item.record) =>
              /\ item.record.status = "verified" \/ item.record.ingestDecision = "exclude"
              /\ CurlFailures(item.audit.failLog, item.audit.attempt) = {}
         /\ ~ViaCurl(item.record) /\ item.record.status # "excluded" =>
              CurlFailures(item.audit.failLog, item.audit.attempt) # {}

\* A ScienceDirect page without abstract, returned by the browser in the
\* second attempt after the lightweight fetch of each attempt was incomplete.
C12_Witness ==
  /\ Produced # {}
  /\ \E i \in Produced :
       LET item == results[i][1] IN
       /\ AutoScienceDirect(i) /\ item.ok /\ ~ViaCurl(item.record)
       /\ item.audit.attempt = 2
       /\ \A attempt \in 1..2 :
            \E k \in CurlFailures(item.audit.failLog, attempt) :
              item.audit.failLog[k].entry.errorName = "IncompleteRecord"

\* The log holds a retrieval made by the lightweight fetch.
UsedCurl(log) == \E k \in 1..Len(log) : log[k].entry.method = "curl_sciencedirect"

\* The log holds a retrieval made through the browser.
UsedBrowser(log) == \E k \in 1..Len(log) : log[k].entry.method = "browser"

\* C13: in curl mode no ScienceDirect-family URL ever reaches the browser (no
\* context is asked for it and, alone in its run, no browser is launched),
\* even when every fetch of every attempt has failed; in browser mode the
\* lightweight fetch is never attempted for any URL.
C13_ModeSelectorIsRespected ==
  /\ passArgs.sciencedirectMode = "curl" =>
       /\ \A w \in InFlight :
            isScienceDirectLikeUrl(passUrls[workers[w].index]) =>
              /\ workers[w].pc \notin {"context", "goto", "extract"}
              /\ ~UsedBrowser(workers[w].failLog)
       /\ \A i \in Produced :
            isScienceDirectLikeUrl(passUrls[i]) => ~UsedBrowser(results[i][1].audit.failLog)
       /\ (\A i \in 1..Len(passUrls) : isScienceDirectLikeUrl(passUrls[i])) =>
            launches = 0 /\ browserState = "none"
  /\ passArgs.sciencedirectMode = "browser" =>
       /\ \A w \in InFlight :
            /\ workers[w].pc # "curl"
            /\ workers[w].curlResult = <<>>
            /\ ~UsedCurl(workers[w].failLog)
       /\ \A i \in Produced :
            /\ ~ViaCurl(results[i][1].record)
            /\ ~UsedCurl(results[i][1].audit.failLog)

\* In curl mode the fetch of a ScienceDirect article failed in each of two
\* attempts and the failure record is returned; no browser was launched.
C13_Witness ==
  /\ passArgs.sciencedirectMode = "curl"
  /\ Produced # {}
  /\ \E i \in Produced :
       LET item == results[i][1] IN
       /\ isScienceDirectLikeUrl(passUrls[i])
       /\ ~item.ok
       /\ item.audit.attempt = 2
       /\ \A attempt \in 1..2 : CurlFailures(item.audit.failLog, attempt) # {}
  /\ launches = 0

\* The record was built from the metadata of a page that was retrieved.
Retrieved(item) ==
  item.ok /\ item.record.status # "excluded" /\ item.record.resolvedUrl # NoUrl

\* C14: every record of a successful retrieval, by the browser or by the
\* lightweight fetch, carries the policy of the URL reached after the
\* redirects, not that of the target the retrieval started from.
C14_PolicyOfThePostRedirectUrl ==
  \A i \in Produced :
    Retrieved(results[i][1]) =>
      results[i][1].record.policy = policyForUrl(results[i][1].record.resolvedUrl)

\* The errors list of the worker ends with a browser entry of the given name
\* for the target it is at.
LastErrorIs(ws, errorName) ==
  /\ ws.errors # <<>>
  /\ LET last == ws.errors[Len(ws.errors)] IN
     /\ last.method = "browser"
     /\ last.errorName = errorName
     /\ last.attempt = ws.attempt
     /\ last.t = ws.t

\* C15: the challenge wait sleeps and probes again only while the last probe
\* shows a challenge and the elapsed time is below challengeWaitMs, so it
\* polls at most once per started poll interval of that time; when the last
\* probe still shows a challenge the attempt fails with a ChallengeError and
\* the metadata of the page is never extracted; when a probe shows no
\* challenge the attempt goes on to extraction and records no ChallengeError.
C15_ChallengeWaitIsBounded ==
  \A w \in InFlight :
    LET ws == workers[w] IN
    /\ ws.pc = "poll" => ws.probe = "challenge" /\ ws.elapsed < passArgs.challengeWaitMs
    /\ ws.polls > 0 => (ws.polls - 1) * passArgs.challengePollMs < passArgs.challengeWaitMs
    /\ ws.pc = "extract" => ws.probe = "clear"
    /\ ws.probe = "challenge" /\ ws.pc # "poll" =>
         /\ ws.pc \in {"sleep", "thrown"}
         /\ LastErrorIs(ws, "ChallengeError")
         /\ ~(ws.elapsed < passArgs.challengeWaitMs)
    /\ ws.probe = "clear" =>
         /\ ws.pc \in {"extract", "sleep", "thrown"}
         /\ ~LastErrorIs(ws, "ChallengeError")

\* The page still showed the challenge after two polls: the attempt has
\* failed with a ChallengeError and the worker is in its backoff sleep.
C15_Witness ==
  \E w \in InFlight :
    /\ workers[w].pc = "sleep"
    /\ workers[w].probe = "challenge"
    /\ workers[w].polls = 2
    /\ LastErrorIs(workers[w], "ChallengeError")

\* classifyArticleType has returned.
Classified == args.fn = "classifyArticleType" /\ output # <<>>

\* The raw hints of the call that map to an article type, in order.
MappedRawHints ==
  SelectSeq(args.rawTypeHints,
            LAMBDA h : normalizeArticleTypeValue(h.value, args.policyName, TRUE) # "")

\* C16: whenever some raw hint maps to an article type, the articleType, the
\* ingestDecision and the classification source are those of the first such
\* raw hint, whatever the title and page-title hints say.
C16_RawHintsPrecedeSemanticHints ==
  Classified /\ MappedRawHints # <<>> =>
    LET first == MappedRawHints[1]
        type == normalizeArticleTypeValue(first.value, args.policyName, TRUE)
    IN /\ output[1].articleType = type
       /\ output[1].source = first.sourceLabel
       /\ output[1].ingestDecision =
            IF type \in EXCLUDE_ARTICLE_TYPES THEN "exclude" ELSE "include"
       /\ output[1] = classifyArticleType(args.policyName, args.rawTypeHints, <<>>)

\* The Springer fixture: raw type Original Paper, title with "Perspective".
C16_Witness ==
  /\ Classified
  /\ args.policyName = "springer_link"
  /\ Len(args.rawTypeHints) = 1 /\ args.rawTypeHints[1].value = "Original Paper"
  /\ args.semanticHints[1].value = "A Perspective on X"
  /\ output[1].articleType = "research-article"
  /\ output[1].ingestDecision = "include"
  /\ output[1].source = "publisher_raw_type"

\* The candidates of the call that come from the DOM, are longer than 250
\* characters and hold no ellipsis.
FullDomAbstracts ==
  {i \in 1..Len(args.candidates) :
     /\ args.candidates[i].origin = "dom"
     /\ args.candidates[i].length > 250
     /\ ~args.candidates[i].ellipsis}

\* The candidates of the call that are meta descriptions ending in "...".
MetaTeasers ==
  {i \in 1..Len(args.candidates) :
     args.candidates[i].origin = "meta" /\ args.candidates[i].ellipsis}

\* C17: whenever the candidates hold a DOM abstract longer than 250
\* characters without ellipsis and a meta description ending in "...", the
\* abstract chosen is the DOM text, however long the truncated teaser is.
C17_DomAbstractBeatsTruncatedTeaser ==
  /\ args.fn = "chooseBestAbstractLocal" /\ output # <<>>
  /\ FullDomAbstracts # {} /\ MetaTeasers # {}
  => output[1].origin = "dom"

\* The inputs of a citation that must all be present.
CitationCoreIsPresent ==
  /\ formatApaAuthors(args.authors) # <<>>
  /\ ~isNotVerifiedValue(args.year) /\ ~isNotVerifiedValue(args.title)
  /\ ~isNotVerifiedValue(args.journal) /\ args.doiUrl # NoUrl

\* The volume, issue and page range of the record that are present.
PublicationParts ==
  {key \in {"volume", "issue", "pageRange"} : ~isNotVerifiedValue(args[key])}

\* C18: buildApaCitation returns a citation other than "[Not verified]" if and
\* only if authors, year, title, journal and DOI are all present and either
\* one of volume, issue and page range is present or none of them is and the
\* online-publication date is; in every other case it returns exactly
\* "[Not verified]".
C18_CitationIffInputsPresent ==
  args.fn = "buildApaCitation" /\ output # <<>>
  => /\ output[1].form # "nv"
          <=> /\ CitationCoreIsPresent
              /\ \/ PublicationParts # {}
                 \/ ~isNotVerifiedValue(args.publishedOnline)
     /\ output[1].form = "nv" => output[1] = NoCitation

\* C19: for every DOI-bearing text in an accepted shape, normalizeDoi of the
\* normalized text is the normalized text, and the normalized text is
\* https://doi.org/ followed by a non-empty DOI in lower case.
C19_NormalizeDoiIsIdempotent ==
  args.fn = "normalizeDoi" /\ Len(output) = 2
  => /\ output[2] = output[1]
     /\ Len(output[1]) > 1 /\ output[1][1] = "https://doi.org/"
     /\ \A i \in 2..Len(output[1]) : toLowerCase(output[1][i]) = output[1][i]

\* The text holds the honorific "Dr." or "Professor" as a word.
HoldsHonorific(text) == \E i \in 1..Len(text) : text[i] \in {"Dr.", "Professor"}

\* C20: the formatted name of an author string that holds "Dr." or
\* "Professor", at any place and any number of times, in a personal, one-word
\* or corporate name, holds neither word; the citation takes the formatted
\* names as they are.
C20_HonorificsAreStripped ==
  args.fn = "formatApaAuthor" /\ output # <<>> /\ HoldsHonorific(args.name)
  => ~HoldsHonorific(output[1])

\* The kinds of source the page of the call gives author candidates in.
KindsWithCandidates ==
  {kind \in {"meta", "dom", "jsonld_name", "preloaded_text",
             args.extracted.authorsStructuredSourceKind} :
     \/ kind = "meta" /\ args.extracted.authorsFromMeta # <<>>
     \/ kind = "dom" /\ args.extracted.authorsFromDom # <<>>
     \/ kind = "jsonld_name" /\ args.extracted.authorsFromJsonLdNames # <<>>
     \/ kind = "preloaded_text" /\ args.extracted.authorsFromPreloadedText # <<>>
     \/ /\ kind = args.extracted.authorsStructuredSourceKind
        /\ args.extracted.authorsStructuredCandidates # <<>>}

\* The first kinds of the policy's order that have a candidate: one kind, or
\* none.
FirstKindsOfTheOrder ==
  LET priority == authorSourcePriority(args.policyName)
  IN {priority[i] : i \in {k \in 1..Len(priority) :
                             /\ priority[k] \in KindsWithCandidates
                             /\ \A j \in 1..(k - 1) : priority[j] \notin KindsWithCandidates}}

\* The kinds the authors of a selection were read from.
KindsUsed(selected) ==
  {selected.rawAuthors[i] : i \in 1..Len(selected.rawAuthors)}
  \cup {selected.structuredAuthors[i] : i \in 1..Len(selected.structuredAuthors)}

\* C21: the authors of a record come from one kind of source, the first of
\* the policy's order that has a candidate; no candidate of a later kind, or
\* of a kind that is not in the order, is used.
C21_AuthorsFromFirstKindOfTheOrder ==
  args.fn = "selectAuthorSourceForRecord" /\ output # <<>>
  => KindsUsed(output[1]) = FirstKindsOfTheOrder

\* The item holds a record that extractMetadata built from a page the browser
\* reached.
ExtractedByBrowser(item) ==
  item.ok /\ ~ViaCurl(item.record) /\ item.record.status # "excluded"

\* C22: a browser retrieval that yields a record with missing required fields
\* is a failed attempt, entered in the error list and retried while attempts
\* remain; it is never returned at once as the result of the URL, so every
\* record the browser path returns while attempts remain has no required
\* field missing.
C22_IncompleteBrowserRecordIsRetried ==
  \A i \in Produced :
    /\ ExtractedByBrowser(results[i][1])
    /\ results[i][1].audit.attempt < passArgs.maxRetries
    => results[i][1].record.missingFields = <<>>

\* How far a worker is within the iteration of one target.
Rank(pc) ==
  CASE pc = "resolve" -> 1 [] pc = "curl" -> 2 [] pc = "context" -> 3
    [] pc = "goto" -> 4 [] pc = "poll" -> 5 [] pc = "extract" -> 6
    [] pc = "sleep" -> 7 [] OTHER -> 8

\* The worker is in a call of verifySingleUrl, within the attempt ceiling, at
\* one of the targets of its URL, and past the pre-navigation checks when it
\* is retrieving.
WithinAttempts(w) ==
  LET ws == workers[w]
      targets == Targets(passUrls[ws.index])
  IN /\ ws.attempt \in 1..passArgs.maxRetries
     /\ Len(targets) \in 1..2 /\ targets[1] = passUrls[ws.index]
     /\ Len(targets) = 2 => targets[2] = normalizeDoi(passUrls[ws.index])
     /\ ws.t \in 1..Len(targets)
     /\ ws.pc \in {"curl", "context", "goto", "poll", "extract"} =>
          /\ ws.targetUrl # NoUrl
          /\ classifyUnsafePreNavigationLink(targets[ws.t]) = ""
          /\ classifyUnsafePreNavigationLink(ws.targetUrl) = ""
          /\ classifyKnownNonArticleLink(ws.targetUrl) = ""

\* A step of a worker within one call moves it forward: to a later step of
\* the same target (the challenge wait alone repeats its step), to the
\* tracking resolution of the next target, or after the backoff to the
\* tracking resolution of the first target of the next attempt.
MovesForward(w) ==
  LET a == workers[w]
      b == workers'[w]
  IN w \in InFlight /\ b.pc \notin {"idle", "off", "done", "thrown"}
       /\ a.index = b.index /\ a # b =>
     \/ /\ b.attempt = a.attempt /\ b.t = a.t
        /\ Rank(b.pc) > Rank(a.pc) \/ (a.pc = "poll" /\ b.pc = "poll")
     \/ /\ b.attempt = a.attempt /\ b.t = a.t + 1
        /\ b.pc = "resolve" /\ a.pc # "sleep"
     \/ /\ b.attempt = a.attempt + 1 /\ b.t = 1
        /\ b.pc = "resolve" /\ a.pc = "sleep"

C24_BackoffOnlyBetweenAttempts ==
  \A i \in Produced :
    ~results[i][1].ok => results[i][1].audit.sleeps = results[i][1].audit.attempt - 1

\* A step of worker w that classifies its target ends the call: the worker
\* goes on to a retrieval after tracking resolution only with a target that
\* is neither unsafe, nor a duplicate, nor a known non-article link, and when
\* the page it navigated to shows no challenge it either returns or goes on
\* to the extraction, and to that only from a page that is neither a
\* duplicate nor a known non-article link.
ExcludesAtOnce(w) ==
  LET a == workers[w]
      b == workers'[w]
      inputUrl == passUrls[a.index]
      navigatedUrl == maybeCanonicalArticleUrl(b.pageUrl)
  IN /\ a.pc = "resolve" /\ b.pc \in {"curl", "context"} =>
          /\ classifyUnsafePreNavigationLink(b.targetUrl) = ""
          /\ classifyKnownNonArticleLink(b.targetUrl) = ""
          /\ ~shouldSkipDuplicateFinalUrl(seenFinalUrls, b.targetUrl, inputUrl)
     /\ a.pc \in {"goto", "poll"} /\ b.probe = "clear" /\ results' = results =>
          /\ b.pc = "extract"
          /\ classifyKnownNonArticleLink(navigatedUrl) = ""
          /\ ~shouldSkipDuplicateFinalUrl(seenFinalUrls, navigatedUrl, inputUrl)

\* C25: a target classified as unsafe, as a known non-article link (after
\* tracking resolution or after navigation) or as a duplicate makes
\* verifySingleUrl return the excluded record in that attempt: no metadata is
\* extracted for it, no further attempt is made and no backoff sleep follows.
C25_ExclusionEndsTheCall ==
  [][\A w \in 1..MaxConcurrency : ExcludesAtOnce(w)]_vars

\* The seen-set changes only in a step in which a call returns a record with
\* ok true.
MarksOnlyOnReturn ==
  seenFinalUrls' # seenFinalUrls =>
    \E i \in 1..Len(passUrls) :
      results[i] = <<>> /\ results'[i] # <<>> /\ results'[i][1].ok

\* C26: a normalized final URL enters the seen-set of the run only in the
\* step in which verifySingleUrl returns a record for it; a failed attempt, an
\* incomplete lightweight fetch and a failure record add nothing, so in a run
\* of one URL the seen-set is empty until the record is returned and no
\* retry or escalation pass makes the URL a duplicate of itself.
C26_SeenSetMarkedOnlyOnReturn ==
  /\ [][MarksOnlyOnReturn]_vars
  /\ [](Len(urls) = 1 /\ InFlight # {} => seenFinalUrls = {})
  /\ [](Len(urls) = 1 =>
          \A i \in Produced :
            results[i][1].record.ingestReason # "duplicate_final_url_in_batch")

\* C27: within one pass the browser is launched at most once, however many
\* workers ask for the context, and not at all when no worker asks for it; it
\* is closed only after every worker has stopped processing URLs, also when
\* the processing of a worker has failed.
C27_BrowserLaunchedOnceClosedAtTheEnd ==
  /\ launches <= 1
  /\ launches = 0 <=> browserState = "none"
  /\ browserState = "none" =>
       \A w \in InFlight : workers[w].pc \notin {"context", "goto", "poll", "extract"}
  /\ browserState = "closed" =>
       \A w \in 1..MaxConcurrency : workers[w].pc \in {"done", "off", "thrown"}

\* The record excludes a link whose target was still a tracking URL, for the
\* reason classifyKnownNonArticleLink gives for that URL.
ExcludedAsNonArticleTracker(record) ==
  /\ record.status = "excluded"
  /\ isTrackingUrl(record.resolvedUrl)
  /\ record.ingestReason = classifyKnownNonArticleLink(record.resolvedUrl)

\* The worker leaves the pre-resolution with the tracking URL still its target.
KeepsTheTracker(w) ==
  /\ workers[w].pc = "resolve"
  /\ workers'[w].pc # "resolve"
  /\ isTrackingUrl(workers'[w].targetUrl)

\* C28: a tracking-host URL whose pre-resolution failed, was discarded by the
\* cookieAbsent gate or was skipped, so that the target is still the tracking
\* URL, is never excluded as a known non-article link: no record excludes a
\* tracking URL for the reason of classifyKnownNonArticleLink, and the worker
\* goes on to the browser with that URL.
C28_UnresolvedTrackerGoesToBrowser ==
  /\ [](\A i \in Produced : ~ExcludedAsNonArticleTracker(results[i][1].record))
  /\ [][\A w \in 1..MaxConcurrency :
          KeepsTheTracker(w) =>
            /\ workers'[w].pc = "context"
            /\ results' = results
            /\ workers'[w].targetUrl = passUrls[workers[w].index]]_vars

\* The partial sentinel inferJournalFallback gives for a page of
\* journals.aom.org whose journal nothing states.
PartialSentinel == "Academy of Management [Not verified]"

Listed(field, fields) == \E k \in 1..Len(fields) : fields[k] = field

\* C29: a record whose journal was set to the partial sentinel "Academy of
\* Management [Not verified]" has an unverified journal: "journal" is among
\* its missingFields, its status is not verified, and its citation is the
\* unverified sentinel, not a citation holding the partial sentinel.
C29_PartialSentinelIsUnverified ==
  \A i \in Produced :
    LET record == results[i][1].record IN
    record.journal = PartialSentinel =>
      /\ Listed("journal", record.missingFields)
      /\ record.status # "verified"
      /\ record.citation.form = "nv"

\* C30: in every record produced, extracted, excluded or failure,
\* missingFields is exactly the set of the required fields title, doiUrl,
\* journal, year, abstract and citation that hold the unverified sentinel in
\* that record; doiUrl is listed whenever the doiUrl of the record is the
\* sentinel.
C30_MissingFieldsAreTheSentinelFields ==
  \A i \in Produced :
    LET record == results[i][1].record IN
    \A key \in RequiredFields :
      Listed(key, record.missingFields) <=> IsSentinel(record, key)

====
